---- MODULE Spec2Model ----
(***************************************************************************)
(* Model of the insurance-plan generator: app.py (generate_all_scenarios), *)
(* calculation_logic.py (run_calculation_scenario, find_soffice_path,      *)
(* read_results_from_xlsx).  The office suite and the file system are the  *)
(* environment: every outcome the code distinguishes is a choice of the    *)
(* environment.                                                            *)
(***************************************************************************)
EXTENDS Integers, Sequences, FiniteSets, TLC

VARIABLES
    now,            \* last value read from the wall clock (datetime.now)
    elapsed,        \* whether a step that takes time has run since that reading
    dirs,           \* directories that exist under DATA_DIR
    files,          \* path -> workbook, the files that exist in those directories
    template,       \* what is at CALCULATOR_XLSX_PATH
    inputs,         \* per run: the inputs dict of generate_all_scenarios
    pc,             \* per run: position in generate_all_scenarios / run_calculation_scenario
    temp_dir,       \* per run: temp_dir of the run
    scen,           \* per run: scenario_name of the running run_calculation_scenario
    calls,          \* per run: scenario_name of each run_calculation_scenario call, in order
    results,        \* per run: results_no_withdrawal, results_withdrawal_A, results_withdrawal_B
    calculation_successful, \* per run: the flag of generate_all_scenarios
    output_to_return,       \* per run: output_to_return
    returned,       \* per run: the value generate_all_scenarios returned
    st_messages,    \* per run: st.error / st.warning calls, in order
    invocations,    \* per run: subprocess.run calls of soffice, in order
    lookups,        \* per run: results of find_soffice_path, in order
    extracted,      \* per run: workbooks read_results_from_xlsx was given, in order
    cleanups,       \* per run: outcomes of shutil.rmtree(temp_dir), in order
    rd,             \* read_results_from_xlsx applied on its own: input and result
    wr,             \* step 1 of run_calculation_scenario applied on its own
    xl,             \* create_plan_excel applied on its own: input and result
    excel_bytes,    \* per run: what create_plan_excel made of the value returned
    pdf,            \* create_plan_pdf applied on its own: input, environment and result
    ui              \* one browser session of the page: session_state and what is shown

vars == <<now, elapsed, dirs, files, template, inputs, pc, temp_dir, scen, calls, results,
          calculation_successful, output_to_return, returned, st_messages,
          invocations, lookups, extracted, cleanups, rd, wr, xl, excel_bytes,
          pdf, ui>>

runVars == <<now, elapsed, dirs, files, template, inputs, pc, temp_dir, scen, calls,
             results, calculation_successful, output_to_return, returned, st_messages,
             invocations, lookups, extracted, cleanups, excel_bytes>>

\* ------------------------------------------------------------------ bounds

\* the clock takes the values 0..MaxClock
MaxClock == 1
\* longest report_years list given to read_results_from_xlsx on its own
MaxYears == 3
\* calculation requests a session makes
MaxClicks == 2

\* ------------------------------------------------------- program constants

\* Python's None where a result list is expected, and a result list that is there
NoResult == [is_none |-> TRUE, list |-> <<>>]
Result(l) == [is_none |-> FALSE, list |-> l]

\* one st.error or st.warning call: level, which message, and the scenario or the
\* year it names ("" and 0 when it names none)
Msg(level, tag, scenario, year) ==
    [level |-> level, tag |-> tag, scenario |-> scenario, year |-> year]

\* os.path.exists is false for a path
NoFile == [exists |-> FALSE, fmt |-> "", loadable |-> FALSE, has_sheet |-> FALSE,
           cells |-> [c \in {} |-> 0]]

FIXED_PAYMENT_YEARS == 5

FIXED_REPORT_YEARS == <<10, 15, 20, 25, 30, 35, 40, 45, 50, 55, 60, 70, 80, 90>>

CALCULATOR_SHEET_NAME == "TRST"

\* (variant: a table that goes on in steps of five years after year 60)
YEAR_TO_CELL_MAP_StepsOfFive ==
    (10 :> "G74") @@ (15 :> "G79") @@ (20 :> "G84") @@ (25 :> "G89") @@
    (30 :> "G94") @@ (35 :> "G99") @@ (40 :> "G104") @@ (45 :> "G109") @@
    (50 :> "G114") @@ (55 :> "G119") @@ (60 :> "G124") @@ (65 :> "G129") @@
    (70 :> "G134") @@ (75 :> "G139")

YEAR_TO_CELL_MAP ==
    (10 :> "G74") @@ (15 :> "G79") @@ (20 :> "G84") @@ (25 :> "G89") @@
    (30 :> "G94") @@ (35 :> "G99") @@ (40 :> "G104") @@ (45 :> "G109") @@
    (50 :> "G114") @@ (55 :> "G119") @@ (60 :> "G124") @@ (70 :> "G134") @@
    (80 :> "G144") @@ (90 :> "G154")

INPUT_CELL_MAP ==
    ("premium" :> "C7") @@ ("withdrawal_start" :> "F7") @@ ("withdrawal_amount" :> "F8")

\* the two sessions of the web application that may run generate_all_scenarios
Runs == {"s1", "s2"}

\* the three scenario_name arguments, in the order generate_all_scenarios uses them
ScenarioNames == {"No Withdrawal", "Withdrawal A", "Withdrawal B"}

\* safe_scenario_name: keep alphanumerics, blanks and '_', lower-case, blanks to '_'
SafeScenarioName(scenario_name) ==
    CASE scenario_name = "No Withdrawal" -> "no_withdrawal"
      [] scenario_name = "Withdrawal A" -> "withdrawal_a"
      [] scenario_name = "Withdrawal B" -> "withdrawal_b"

\* keys of the dictionary generate_all_scenarios returns (the source's keys are the
\* Chinese labels for "no withdrawal", "withdrawal plan A", "withdrawal plan B")
KeyNoWithdrawal == "key_no_withdrawal"
KeyPlanA == "key_plan_A"
KeyPlanB == "key_plan_B"

\* ------------------------------------------------------------- workbooks

\* The cells of sheet TRST the program touches: the inputs, the results, and one
\* cell (C8) it never names.
ResultCells == {YEAR_TO_CELL_MAP[y] : y \in DOMAIN YEAR_TO_CELL_MAP}
InputCells == {INPUT_CELL_MAP[p] : p \in DOMAIN INPUT_CELL_MAP}
OtherCells == {"C8"}

YearOfCell(ref) == CHOOSE y \in DOMAIN YEAR_TO_CELL_MAP : YEAR_TO_CELL_MAP[y] = ref

\* cell values: empty (None), a number, or text; a text is a string and the
\* numbers formatted into it.  Toolbox results are numbers in thousandths.
EmptyCell == [kind |-> "none", v |-> 0, text |-> "", args |-> <<>>]
NumCell(n) == [kind |-> "num", v |-> n, text |-> "", args |-> <<>>]
StrCell(s, args) == [kind |-> "text", v |-> 0, text |-> s, args |-> args]
\* the text a formula that cannot be calculated shows
TextCell == StrCell("#VALUE!", <<>>)

\* Python values a caller may pass in scenario_params: a number (int or float),
\* a string, None
PyNum(n) == [type |-> "num", n |-> n, s |-> ""]
PyText(s) == [type |-> "str", n |-> 0, s |-> s]
PyNone == [type |-> "none", n |-> 0, s |-> ""]

\* str(value) of a value that is no number
PyStr(value) ==
    CASE value.type = "str" -> value.s
      [] value.type = "none" -> "None"

\* Stand-in for the formulas of the toolbox sheet, which the office suite evaluates:
\* the cash value of a year as a function of the three input cells, in thousandths.
EngineValue(cells, year) ==
    LET premium == cells["C7"].v
        start == cells["F7"].v
        amount == cells["F8"].v
        taken == IF start > 0 /\ year >= start THEN amount ELSE 0
    IN  (premium * FIXED_PAYMENT_YEARS + year - taken) * 1000

\* What the office suite writes when it converts workbook wb to format fmt: formula
\* cells without a cached value are calculated (to numbers, or to error text when
\* engine = "text"); cached values are kept.
ConvertWorkbook(wb, fmt, engine) ==
    [wb EXCEPT !.fmt = fmt,
               !.cells = [c \in DOMAIN wb.cells |->
                            IF c \in ResultCells /\ wb.cells[c].kind = "none"
                            THEN IF engine = "num"
                                 THEN NumCell(EngineValue(wb.cells, YearOfCell(c)))
                                 ELSE TextCell
                            ELSE wb.cells[c]]]

\* The master template as shipped: formulas without cached values, default inputs.
TemplateCells ==
    [c \in ResultCells \cup InputCells \cup OtherCells |->
        IF c \in ResultCells THEN EmptyCell
        ELSE IF c \in OtherCells THEN NumCell(45)
        ELSE NumCell(0)]

TemplateStates ==
    { [exists |-> FALSE, loadable |-> FALSE, has_sheet |-> FALSE],
      [exists |-> TRUE, loadable |-> FALSE, has_sheet |-> FALSE],
      [exists |-> TRUE, loadable |-> TRUE, has_sheet |-> FALSE],
      [exists |-> TRUE, loadable |-> TRUE, has_sheet |-> TRUE] }

TemplateWorkbook(t) ==
    [exists |-> TRUE, fmt |-> "xlsx", loadable |-> t.loadable,
     has_sheet |-> t.has_sheet, cells |-> TemplateCells]

\* ------------------------------------------------- read_results_from_xlsx

\* round(x, 2) on a value in thousandths (ties to even)
Round2(m) ==
    LET q == m \div 10
        r == m % 10
    IN  IF r < 5 THEN q * 10
        ELSE IF r > 5 THEN (q + 1) * 10
        ELSE IF q % 2 = 0 THEN q * 10 ELSE (q + 1) * 10

\* sheet[cell_ref].value: a cell the sheet does not have yet is created, empty
SheetValue(wb, cell_ref) ==
    IF cell_ref \in DOMAIN wb.cells THEN wb.cells[cell_ref] ELSE EmptyCell

\* one iteration of the loop over report_years: the entry appended and the warnings
ReadYear(wb, year) ==
    IF year \in DOMAIN YEAR_TO_CELL_MAP
    THEN LET cell_value == SheetValue(wb, YEAR_TO_CELL_MAP[year])
         IN  CASE cell_value.kind = "none" ->
                     [entry |-> [year |-> year, total_csv |-> 0], warnings |-> <<>>]
               [] cell_value.kind = "num" ->
                     [entry |-> [year |-> year, total_csv |-> Round2(cell_value.v)],
                      warnings |-> <<>>]
               [] OTHER ->
                     [entry |-> [year |-> year, total_csv |-> 0],
                      warnings |-> <<Msg("warning", "not_numeric", "", year)>>]
    ELSE [entry |-> [year |-> year, total_csv |-> 0],
          warnings |-> <<Msg("warning", "year_not_in_map", "", year)>>]

\* (variant: a year that is not in the table is left out)
RECURSIVE ReadYears_SkipUnmapped(_, _)
ReadYears_SkipUnmapped(wb, report_years) ==
    IF report_years = <<>> THEN [results |-> <<>>, messages |-> <<>>]
    ELSE LET first == ReadYear(wb, Head(report_years))
             rest == ReadYears_SkipUnmapped(wb, Tail(report_years))
         IN  IF Head(report_years) \in DOMAIN YEAR_TO_CELL_MAP
             THEN [results |-> <<first.entry>> \o rest.results,
                   messages |-> first.warnings \o rest.messages]
             ELSE [results |-> rest.results,
                   messages |-> first.warnings \o rest.messages]

\* the loop over report_years (lines 171-190)
RECURSIVE ReadYears(_, _)
ReadYears(wb, report_years) ==
    IF report_years = <<>> THEN [results |-> <<>>, messages |-> <<>>]
    ELSE LET first == ReadYear(wb, Head(report_years))
             rest == ReadYears(wb, Tail(report_years))
         IN  [results |-> <<first.entry>> \o rest.results,
              messages |-> first.warnings \o rest.messages]

\* (variant: a cell that is no number ends the extraction, as any other error does)
read_results_from_xlsx_TextFails(file, report_years) ==
    IF ~file.exists
    THEN [results |-> NoResult,
          messages |-> <<Msg("error", "calculated_file_not_found", "", 0)>>]
    ELSE IF ~file.loadable
    THEN [results |-> NoResult, messages |-> <<Msg("error", "read_error", "", 0)>>]
    ELSE IF ~file.has_sheet
    THEN [results |-> NoResult,
          messages |-> <<Msg("error", "result_sheet_not_found", "", 0)>>]
    ELSE IF \E i \in 1 .. Len(report_years) :
               /\ report_years[i] \in DOMAIN YEAR_TO_CELL_MAP
               /\ SheetValue(file, YEAR_TO_CELL_MAP[report_years[i]]).kind = "text"
    THEN [results |-> NoResult, messages |-> <<Msg("error", "read_error", "", 0)>>]
    ELSE LET read == ReadYears(file, report_years)
         IN  [results |-> Result(read.results), messages |-> read.messages]

\* (variant: a workbook without the sheet is read from the sheet it has)
read_results_from_xlsx_AnySheet(file, report_years) ==
    IF ~file.exists
    THEN [results |-> NoResult,
          messages |-> <<Msg("error", "calculated_file_not_found", "", 0)>>]
    ELSE IF ~file.loadable
    THEN [results |-> NoResult, messages |-> <<Msg("error", "read_error", "", 0)>>]
    ELSE LET read == ReadYears(file, report_years)
         IN  [results |-> Result(read.results), messages |-> read.messages]

\* read_results_from_xlsx(calculated_xlsx_path, report_years); file is what is at
\* the path: NoFile, or the workbook there.
read_results_from_xlsx(file, report_years) ==
    IF ~file.exists
    THEN [results |-> NoResult,
          messages |-> <<Msg("error", "calculated_file_not_found", "", 0)>>]
    ELSE IF ~file.loadable
    THEN [results |-> NoResult, messages |-> <<Msg("error", "read_error", "", 0)>>]
    ELSE IF ~file.has_sheet
    THEN [results |-> NoResult,
          messages |-> <<Msg("error", "result_sheet_not_found", "", 0)>>]
    ELSE LET read == ReadYears(file, report_years)
         IN  [results |-> Result(read.results), messages |-> read.messages]

\* ------------------------------------------------------------ file system

\* a path in a run directory: directory (its timestamp), prefix, scenario, extension
Path(dir, prefix, safe_name, ext) == <<dir, prefix, safe_name, ext>>

FileAt(fs, p) == IF p \in DOMAIN fs THEN fs[p] ELSE NoFile

PutFile(fs, p, wb) == [q \in DOMAIN fs \cup {p} |-> IF q = p THEN wb ELSE fs[q]]

RemoveFiles(fs, ps) == [q \in DOMAIN fs \ ps |-> fs[q]]

\* os.rename(src, dst) of an existing file
RenameFile(fs, src, dst) == RemoveFiles(PutFile(fs, dst, fs[src]), {src})

\* shutil.rmtree(dir): the files of the directory go with it
RemoveTree(fs, dir) == [q \in {p \in DOMAIN fs : p[1] # dir} |-> fs[q]]

\* The office suite names its output itself: the input's base name, new extension.
ToolOutputPath(input_path, fmt) == Path(input_path[1], input_path[2], input_path[3], fmt)

\* What one subprocess.run of the office suite can do: raise (the timeout expires,
\* the binary cannot be launched), or end with an exit code, having written its
\* output file or not.  engine: what formula cells calculate to.
ToolOutcomes ==
    { [raised |-> "conversion_timeout", rc |-> 0, writes |-> FALSE, engine |-> "num"],
      [raised |-> "conversion_launch_failure", rc |-> 0, writes |-> FALSE, engine |-> "num"],
      [raised |-> "", rc |-> 0, writes |-> TRUE, engine |-> "num"],
      [raised |-> "", rc |-> 0, writes |-> TRUE, engine |-> "text"],
      [raised |-> "", rc |-> 0, writes |-> FALSE, engine |-> "num"],
      [raised |-> "", rc |-> 1, writes |-> TRUE, engine |-> "num"],
      [raised |-> "", rc |-> 1, writes |-> FALSE, engine |-> "num"] }

\* The files after the office suite ran on input_path with --convert-to fmt.
AfterTool(fs, ds, input_path, fmt, outcome) ==
    LET src == FileAt(fs, input_path)
    IN  IF outcome.writes /\ src.exists /\ src.loadable /\ input_path[1] \in ds
        THEN PutFile(fs, ToolOutputPath(input_path, fmt),
                     ConvertWorkbook(src, fmt, outcome.engine))
        ELSE fs

\* ------------------------------------------------- generate_all_scenarios

\* a withdrawal configuration as the form or a caller may give it
WithdrawalConfigs ==
    { [start |-> 0, amount |-> 0], [start |-> 10, amount |-> 500],
      [start |-> 10, amount |-> 0], [start |-> 0, amount |-> 500],
      [start |-> -1, amount |-> 500], [start |-> 10, amount |-> -100] }

Premiums == {10000}

InputSets ==
    [client_name : {"client"}, premium : Premiums, w_a : WithdrawalConfigs,
     w_b : WithdrawalConfigs]

\* report_parameters
ReportParameters(inp) ==
    [client_name |-> inp.client_name,
     premium |-> inp.premium,
     years |-> FIXED_PAYMENT_YEARS,
     report_years |-> FIXED_REPORT_YEARS,
     withdrawal_a_start |-> inp.w_a.start,
     withdrawal_a_amount |-> inp.w_a.amount,
     withdrawal_b_start |-> inp.w_b.start,
     withdrawal_b_amount |-> inp.w_b.amount]

\* scenario_params of each call of run_calculation_scenario
ScenarioParams(inp, scenario_name) ==
    CASE scenario_name = "No Withdrawal" ->
            [premium |-> PyNum(inp.premium), withdrawal_start |-> PyNum(0),
             withdrawal_amount |-> PyNum(0)]
      [] scenario_name = "Withdrawal A" ->
            [premium |-> PyNum(inp.premium), withdrawal_start |-> PyNum(inp.w_a.start),
             withdrawal_amount |-> PyNum(inp.w_a.amount)]
      [] scenario_name = "Withdrawal B" ->
            [premium |-> PyNum(inp.premium), withdrawal_start |-> PyNum(inp.w_b.start),
             withdrawal_amount |-> PyNum(inp.w_b.amount)]

\* (variant: the amount is not looked at)
RunsWithdrawalA_StartOnly(inp, successful) ==
    inp.w_a.start > 0 /\ successful

\* the condition under which generate_all_scenarios runs scenario A, and scenario B
RunsWithdrawalA(inp, successful) ==
    inp.w_a.start > 0 /\ inp.w_a.amount > 0 /\ successful

\* (variant: scenario B runs whenever the run is still successful)
RunsWithdrawalB_Always(inp, successful) == successful

RunsWithdrawalB(inp, successful) ==
    inp.w_b.start > 0 /\ inp.w_b.amount > 0 /\ successful

\* (variant: a failed base scenario does not clear the flag)
SuccessfulAfter_Kept(scenario_name, value, successful) == successful

\* calculation_successful after a scenario returned value
SuccessfulAfter(scenario_name, value, successful) ==
    IF scenario_name = "No Withdrawal" /\ value.is_none THEN FALSE ELSE successful

\* (variant: plan B is run before plan A)
NextScenario_BFirst(inp, scenario_name, successful) ==
    CASE scenario_name = "No Withdrawal" ->
            IF RunsWithdrawalB(inp, successful) THEN "Withdrawal B"
            ELSE IF RunsWithdrawalA(inp, successful) THEN "Withdrawal A"
            ELSE ""
      [] scenario_name = "Withdrawal B" ->
            IF RunsWithdrawalA(inp, successful) THEN "Withdrawal A" ELSE ""
      [] scenario_name = "Withdrawal A" -> ""

\* The scenario generate_all_scenarios runs next after scenario_name returned, or
\* "" when it goes on to structure the results.
NextScenario(inp, scenario_name, successful) ==
    CASE scenario_name = "No Withdrawal" ->
            IF RunsWithdrawalA(inp, successful) THEN "Withdrawal A"
            ELSE IF RunsWithdrawalB(inp, successful) THEN "Withdrawal B"
            ELSE ""
      [] scenario_name = "Withdrawal A" ->
            IF RunsWithdrawalB(inp, successful) THEN "Withdrawal B" ELSE ""
      [] scenario_name = "Withdrawal B" -> ""

\* (variant: nothing is returned when a requested plan has no results)
StructureFinalResults_AllOrNothing(inp, res) ==
    IF /\ ~res["No Withdrawal"].is_none
       /\ (RunsWithdrawalA(inp, TRUE) => ~res["Withdrawal A"].is_none)
       /\ (RunsWithdrawalB(inp, TRUE) => ~res["Withdrawal B"].is_none)
    THEN [is_none |-> FALSE,
          parameters |-> ReportParameters(inp),
          keys |-> {KeyNoWithdrawal}
                   \cup (IF ~res["Withdrawal A"].is_none THEN {KeyPlanA} ELSE {})
                   \cup (IF ~res["Withdrawal B"].is_none THEN {KeyPlanB} ELSE {}),
          no_withdrawal |-> res["No Withdrawal"],
          plan_a |-> res["Withdrawal A"],
          plan_b |-> res["Withdrawal B"]]
    ELSE [is_none |-> TRUE,
          parameters |-> ReportParameters(inp),
          keys |-> {},
          no_withdrawal |-> NoResult, plan_a |-> NoResult, plan_b |-> NoResult]

\* the final_results dictionary, or None
StructureFinalResults(inp, res) ==
    IF ~res["No Withdrawal"].is_none
    THEN [is_none |-> FALSE,
          parameters |-> ReportParameters(inp),
          keys |-> {KeyNoWithdrawal}
                   \cup (IF ~res["Withdrawal A"].is_none THEN {KeyPlanA} ELSE {})
                   \cup (IF ~res["Withdrawal B"].is_none THEN {KeyPlanB} ELSE {}),
          no_withdrawal |-> res["No Withdrawal"],
          plan_a |-> res["Withdrawal A"],
          plan_b |-> res["Withdrawal B"]]
    ELSE [is_none |-> TRUE,
          parameters |-> ReportParameters(inp),
          keys |-> {},
          no_withdrawal |-> NoResult, plan_a |-> NoResult, plan_b |-> NoResult]

\* what generate_all_scenarios returns when it could not create the directory
NoOutput(inp) ==
    [is_none |-> TRUE, parameters |-> ReportParameters(inp), keys |-> {},
     no_withdrawal |-> NoResult, plan_a |-> NoResult, plan_b |-> NoResult]

NoResults == [n \in ScenarioNames |-> NoResult]

\* run_calculation_scenario returns value to generate_all_scenarios, having shown
\* msgs: the caller stores it, reports a None, and goes on to the next scenario.
ScenarioReturns(r, value, msgs) ==
    LET successful == SuccessfulAfter(scen[r], value, calculation_successful[r])
        next == NextScenario(inputs[r], scen[r], successful)
        failed == IF value.is_none
                  THEN <<Msg("error", "calculation_failed", scen[r], 0)>>
                  ELSE <<>>
    IN  /\ results' = [results EXCEPT ![r][scen[r]] = value]
        /\ calculation_successful' = [calculation_successful EXCEPT ![r] = successful]
        /\ st_messages' = [st_messages EXCEPT ![r] = @ \o msgs \o failed]
        /\ scen' = [scen EXCEPT ![r] = next]
        /\ calls' = [calls EXCEPT ![r] = IF next = "" THEN @ ELSE Append(@, next)]
        /\ pc' = [pc EXCEPT ![r] = IF next = "" THEN "structure" ELSE "prepare"]

\* The values datetime.now() can give, to the microsecond: not before the last
\* reading, and after it when a step of a scenario (file copies, subprocesses, a
\* sleep of a second) has run since.
ClockReadings == (IF elapsed THEN now + 1 ELSE now) .. MaxClock

\* the directory named by the timestamp: temp_calcs_<timestamp>
TempDirName(timestamp) == timestamp

\* lines 83-93: the timestamped directory.  makedirs(exist_ok=True) accepts a
\* directory that is already there, and may raise OSError.
MakeTempDir(r) ==
    /\ pc[r] = "start"
    /\ \E t \in ClockReadings, ok \in BOOLEAN :
        /\ now' = t
        /\ elapsed' = FALSE
        /\ IF ok
           THEN /\ dirs' = dirs \cup {TempDirName(t)}
                /\ temp_dir' = [temp_dir EXCEPT ![r] = TempDirName(t)]
                /\ scen' = [scen EXCEPT ![r] = "No Withdrawal"]
                /\ calls' = [calls EXCEPT ![r] = <<"No Withdrawal">>]
                /\ pc' = [pc EXCEPT ![r] = "prepare"]
                /\ UNCHANGED <<st_messages, returned>>
           ELSE /\ st_messages' = [st_messages EXCEPT ![r] =
                                     Append(@, Msg("error", "mkdir_failed", "", 0))]
                /\ returned' = [returned EXCEPT ![r] = NoOutput(inputs[r])]
                /\ pc' = [pc EXCEPT ![r] = "done"]
                /\ UNCHANGED <<dirs, temp_dir, scen, calls>>
    /\ UNCHANGED <<files, template, inputs, results, calculation_successful,
                   output_to_return, invocations, lookups, extracted, cleanups, rd, wr, xl,
                   excel_bytes, pdf, ui>>

\* ----------------------------------------------- run_calculation_scenario

InputPath(r) == Path(temp_dir[r], "input", SafeScenarioName(scen[r]), "xlsx")
IntermediateOdsPath(r) == Path(temp_dir[r], "intermediate", SafeScenarioName(scen[r]), "ods")
CalculatedPath(r) == Path(temp_dir[r], "calculated", SafeScenarioName(scen[r]), "xlsx")

\* lines 243-247: what a value of scenario_params is written as
WrittenCell(value_to_write) ==
    IF value_to_write.type = "num" THEN NumCell(value_to_write.n)
    ELSE StrCell(PyStr(value_to_write), <<>>)

\* (variant: every cell of cell_map is written, a missing value as None)
WriteInputs_AllMapped(wb, scenario_params, cell_map) ==
    [wb EXCEPT !.cells =
        [c \in DOMAIN wb.cells |->
            IF \E p \in DOMAIN cell_map : cell_map[p] = c
            THEN LET p == CHOOSE q \in DOMAIN cell_map : cell_map[q] = c
                 IN  IF p \in DOMAIN scenario_params THEN WrittenCell(scenario_params[p])
                     ELSE EmptyCell
            ELSE IF c \in ResultCells THEN EmptyCell ELSE wb.cells[c]]]

\* lines 238-250: the cells of cell_map the scenario has a value for are overwritten;
\* saving keeps the formulas and no cached value.
WriteInputs(wb, scenario_params, cell_map) ==
    [wb EXCEPT !.cells =
        [c \in DOMAIN wb.cells |->
            IF \E p \in DOMAIN cell_map : cell_map[p] = c /\ p \in DOMAIN scenario_params
            THEN WrittenCell(scenario_params[CHOOSE p \in DOMAIN cell_map : cell_map[p] = c])
            ELSE IF c \in ResultCells THEN EmptyCell ELSE wb.cells[c]]]

\* (variant: the sheet is taken to be there)
SheetPresent_Unchecked(wb) == TRUE

\* line 231: CALCULATOR_SHEET_NAME in workbook.sheetnames
SheetPresent(wb) == wb.has_sheet

\* Step 1 (lines 218-262) as a function of what it is given: t is what is at
\* base_xlsx_path, dir_exists whether the directory of input_xlsx_path is there.
\* It gives the file left at input_xlsx_path, the messages shown, and whether the
\* function goes on to step 2 (otherwise it returns None).
StepOne(t, dir_exists, scenario_name, scenario_params, cell_map) ==
    LET wb == TemplateWorkbook(t)
    IN  IF ~t.exists
        THEN [ok |-> FALSE, input_file |-> NoFile,
              messages |-> <<Msg("error", "base_not_found", "", 0)>>]
        ELSE IF ~dir_exists
        THEN [ok |-> FALSE, input_file |-> NoFile,
              messages |-> <<Msg("error", "prepare_error", scenario_name, 0)>>]
        ELSE IF ~t.loadable
        THEN [ok |-> FALSE, input_file |-> wb,
              messages |-> <<Msg("error", "prepare_error", scenario_name, 0)>>]
        ELSE IF ~SheetPresent(wb)
        THEN [ok |-> FALSE, input_file |-> wb,
              messages |-> <<Msg("error", "sheet_not_found", "", 0)>>]
        ELSE [ok |-> TRUE, input_file |-> WriteInputs(wb, scenario_params, cell_map),
              messages |-> <<>>]

\* Step 1 (lines 218-262): copy the template and write the inputs.
PrepareInput(r) ==
    /\ pc[r] = "prepare"
    /\ LET step == StepOne(template, temp_dir[r] \in dirs, scen[r],
                           ScenarioParams(inputs[r], scen[r]), INPUT_CELL_MAP)
       IN  /\ files' = IF step.input_file.exists
                       THEN PutFile(files, InputPath(r), step.input_file)
                       ELSE files
           /\ IF step.ok
              THEN /\ pc' = [pc EXCEPT ![r] = "find_soffice"]
                   /\ UNCHANGED <<results, calculation_successful, st_messages, scen,
                                  calls>>
              ELSE ScenarioReturns(r, NoResult, step.messages)
    /\ elapsed' = TRUE
    /\ UNCHANGED <<now, dirs, template, inputs, temp_dir, output_to_return,
                   returned, invocations, lookups, extracted, cleanups, rd, wr, xl,
                   excel_bytes, pdf, ui>>

\* Step 2, lines 264-276: locate the binary; then remove stale outputs.
FindSoffice(r) ==
    /\ pc[r] = "find_soffice"
    /\ \E found \in BOOLEAN :
        /\ lookups' = [lookups EXCEPT ![r] = Append(@, found)]
        /\ IF ~found
           THEN /\ ScenarioReturns(r, NoResult, <<Msg("error", "soffice_not_found", "", 0)>>)
                /\ UNCHANGED files
           ELSE /\ files' = RemoveFiles(files, {IntermediateOdsPath(r), CalculatedPath(r)})
                /\ pc' = [pc EXCEPT ![r] = "convert_ods"]
                /\ UNCHANGED <<results, calculation_successful, st_messages, scen, calls>>
    /\ elapsed' = TRUE
    /\ UNCHANGED <<now, dirs, template, inputs, temp_dir, output_to_return,
                   returned, invocations, extracted, cleanups, rd, wr, xl,
                   excel_bytes, pdf, ui>>

\* (variant: the exit code is not looked at)
ConversionSuccessful_FileOnly(outcome, fs, expected_path) ==
    FileAt(fs, expected_path).exists

\* whether the code takes a conversion for successful (lines 294 and 329)
ConversionSuccessful(outcome, fs, expected_path) ==
    outcome.rc = 0 /\ FileAt(fs, expected_path).exists

\* One conversion (lines 278-311 and 313-344): run the office suite on input_path,
\* and on success rename its output to final_path and go on at next_pc.
Convert(r, input_path, fmt, final_path, next_pc) ==
    /\ elapsed' = TRUE
    /\ \E outcome \in ToolOutcomes :
        LET after == AfterTool(files, dirs, input_path, fmt, outcome)
            expected_path == ToolOutputPath(input_path, fmt)
            successful == outcome.raised = ""
                          /\ ConversionSuccessful(outcome, after, expected_path)
            entry == [scenario |-> scen[r], fmt |-> fmt, source |-> FileAt(files, input_path),
                      raised |-> outcome.raised, rc |-> outcome.rc,
                      output |-> FileAt(after, expected_path),
                      successful |-> successful]
        IN  /\ invocations' = [invocations EXCEPT ![r] = Append(@, entry)]
            /\ IF outcome.raised # ""
               THEN /\ files' = after
                    /\ ScenarioReturns(r, NoResult,
                                       <<Msg("error", outcome.raised, scen[r], 0)>>)
               ELSE IF successful
               THEN /\ files' = RenameFile(after, expected_path, final_path)
                    /\ pc' = [pc EXCEPT ![r] = next_pc]
                    /\ UNCHANGED <<results, calculation_successful, st_messages, scen,
                                   calls>>
               ELSE /\ files' = after
                    /\ ScenarioReturns(r, NoResult,
                                       <<Msg("error", "conversion_failed", "", 0),
                                         Msg("error", "stderr", "", 0)>>)
    /\ UNCHANGED <<now, dirs, template, inputs, temp_dir, output_to_return, returned,
                   lookups, extracted, cleanups, rd, wr, xl,
                   excel_bytes, pdf, ui>>

\* (variant: one hop, the second conversion reads the written input again)
XlsxConversionInput_OneHop(r) == InputPath(r)

\* the input file of the second conversion (line 314)
XlsxConversionInput(r) == IntermediateOdsPath(r)

\* lines 278-311: XLSX -> ODS
ConvertToOds(r) ==
    /\ pc[r] = "convert_ods"
    /\ Convert(r, InputPath(r), "ods", IntermediateOdsPath(r), "convert_xlsx")

\* lines 313-344: ODS -> XLSX
ConvertToXlsx(r) ==
    /\ pc[r] = "convert_xlsx"
    /\ Convert(r, XlsxConversionInput(r), "xlsx", CalculatedPath(r), "read_results")

\* lines 346-363: remove the intermediate file, read the results, return them.
ReadResults(r) ==
    /\ pc[r] = "read_results"
    /\ LET fs == RemoveFiles(files, {IntermediateOdsPath(r)})
           file == FileAt(fs, CalculatedPath(r))
           read == read_results_from_xlsx(file, FIXED_REPORT_YEARS)
       IN  /\ files' = fs
           /\ extracted' = [extracted EXCEPT ![r] =
                              Append(@, [scenario |-> scen[r], file |-> file])]
           /\ ScenarioReturns(r, read.results, read.messages)
    /\ elapsed' = TRUE
    /\ UNCHANGED <<now, dirs, template, inputs, temp_dir, output_to_return,
                   returned, invocations, lookups, cleanups, rd, wr, xl,
                   excel_bytes, pdf, ui>>

\* lines 149-160 of app.py
StructureResults(r) ==
    /\ pc[r] = "structure"
    /\ output_to_return' = [output_to_return EXCEPT ![r] =
                              StructureFinalResults(inputs[r], results[r])]
    /\ pc' = [pc EXCEPT ![r] = "cleanup"]
    /\ UNCHANGED <<now, elapsed, dirs, files, template, inputs, temp_dir, scen, calls,
                   results, calculation_successful, returned, st_messages, invocations,
                   lookups, extracted, cleanups, rd, wr, xl,
                   excel_bytes, pdf, ui>>

\* (variant: a failed cleanup fails the run)
ReturnedAfterCleanup_Fatal(output, removed) ==
    IF removed THEN output ELSE [output EXCEPT !.is_none = TRUE, !.keys = {}]

\* the value generate_all_scenarios returns after the cleanup attempt
ReturnedAfterCleanup(output, removed) == output

\* lines 162-173 of app.py: rmtree may raise, which only warns; then return.
CleanupTempDir(r) ==
    /\ pc[r] = "cleanup"
    /\ \E ok \in BOOLEAN :
        LET removed == ok /\ temp_dir[r] \in dirs
        IN  /\ cleanups' = [cleanups EXCEPT ![r] = Append(@, removed)]
            /\ IF removed
               THEN /\ dirs' = dirs \ {temp_dir[r]}
                    /\ files' = RemoveTree(files, temp_dir[r])
                    /\ UNCHANGED st_messages
               ELSE /\ st_messages' = [st_messages EXCEPT ![r] =
                                         Append(@, Msg("warning", "cleanup_failed", "", 0))]
                    /\ UNCHANGED <<dirs, files>>
            /\ returned' = [returned EXCEPT ![r] =
                              ReturnedAfterCleanup(output_to_return[r], removed)]
    /\ pc' = [pc EXCEPT ![r] = "done"]
    /\ UNCHANGED <<now, elapsed, template, inputs, temp_dir, scen, calls, results,
                   calculation_successful, output_to_return, invocations, lookups,
                   extracted, rd, wr, xl,
                   excel_bytes, pdf, ui>>

\* ------------------------------------------------------- specifications

NoTempDir == 0 - 1

\* before step 1 of run_calculation_scenario, or create_plan_excel, is applied
IdleWrite == [applied |-> FALSE]
IdleExcel == [applied |-> FALSE]
\* before create_plan_pdf is applied
IdlePdf == [applied |-> FALSE]
\* no browser session is open
NoSession == [open |-> FALSE]
\* create_plan_excel was not called for the run
NotRendered == [rendered |-> FALSE]

IdleRead == [applied |-> FALSE, file |-> NoFile, report_years |-> <<>>,
             results |-> NoResult, messages |-> <<>>]

InitRun(active) ==
    /\ now = 0
    /\ elapsed = FALSE
    /\ dirs = {}
    /\ files = <<>>
    /\ template \in TemplateStates
    /\ inputs \in [Runs -> InputSets]
    /\ pc = [r \in Runs |-> IF r \in active THEN "start" ELSE "idle"]
    /\ temp_dir = [r \in Runs |-> NoTempDir]
    /\ scen = [r \in Runs |-> ""]
    /\ calls = [r \in Runs |-> <<>>]
    /\ results = [r \in Runs |-> NoResults]
    /\ calculation_successful = [r \in Runs |-> TRUE]
    /\ output_to_return = [r \in Runs |-> NoOutput(inputs[r])]
    /\ returned = [r \in Runs |-> NoOutput(inputs[r])]
    /\ st_messages = [r \in Runs |-> <<>>]
    /\ invocations = [r \in Runs |-> <<>>]
    /\ lookups = [r \in Runs |-> <<>>]
    /\ extracted = [r \in Runs |-> <<>>]
    /\ cleanups = [r \in Runs |-> <<>>]
    /\ rd = IdleRead
    /\ wr = IdleWrite
    /\ xl = IdleExcel
    /\ excel_bytes = [r \in Runs |-> NotRendered]
    /\ pdf = IdlePdf
    /\ ui = NoSession

\* the session that never asks for a calculation keeps the default form values
DefaultInputs == [client_name |-> "client", premium |-> 10000, w_a |-> [start |-> 0, amount |-> 0],
                  w_b |-> [start |-> 0, amount |-> 0]]

\* one run of generate_all_scenarios, in session s1
Init ==
    /\ InitRun({"s1"})
    /\ inputs["s2"] = DefaultInputs

Next ==
    \E r \in Runs :
        \/ MakeTempDir(r)
        \/ PrepareInput(r)
        \/ FindSoffice(r)
        \/ ConvertToOds(r)
        \/ ConvertToXlsx(r)
        \/ ReadResults(r)
        \/ StructureResults(r)
        \/ CleanupTempDir(r)

Spec == Init /\ [][Next]_vars

\* the inputs of the sessions when two of them calculate: no plan, or plan A
SessionInputs ==
    { inp \in InputSets :
        /\ inp.w_a \in {[start |-> 0, amount |-> 0], [start |-> 10, amount |-> 500]}
        /\ inp.w_b = [start |-> 0, amount |-> 0] }

\* two sessions of the application each run generate_all_scenarios (the server
\* runs every session's script in a thread of its own), with the template in
\* place; the second session has the default form values
InitSessions ==
    /\ InitRun(Runs)
    /\ template = [exists |-> TRUE, loadable |-> TRUE, has_sheet |-> TRUE]
    /\ inputs["s1"] \in SessionInputs
    /\ inputs["s2"] = DefaultInputs

SpecSessions == InitSessions /\ [][Next]_vars

\* ----------------------------------- read_results_from_xlsx on its own

\* years a caller may ask for: two of the table, one that is not in it
ReadYearChoices == {10, 15, 12}

RECURSIVE SeqsUpTo(_, _)
SeqsUpTo(S, n) ==
    IF n = 0 THEN {<<>>}
    ELSE LET shorter == SeqsUpTo(S, n - 1)
         IN  shorter \cup {Append(q, x) : q \in {t \in shorter : Len(t) = n - 1}, x \in S}

\* a calculated workbook whose cells of years 10 and 15 hold a and b
ReadWorkbook(a, b) ==
    [exists |-> TRUE, fmt |-> "xlsx", loadable |-> TRUE, has_sheet |-> TRUE,
     cells |-> [c \in ResultCells \cup InputCells \cup OtherCells |->
                  IF c = "G74" THEN a
                  ELSE IF c = "G79" THEN b
                  ELSE IF c \in ResultCells THEN NumCell(EngineValue(TemplateCells, YearOfCell(c)))
                  ELSE TemplateCells[c]]]

\* a workbook whose sheet has no cell at ref
WithoutCell(wb, ref) ==
    [wb EXCEPT !.cells = [c \in DOMAIN wb.cells \ {ref} |-> wb.cells[c]]]

ReadCellChoices == {EmptyCell, NumCell(52010456), NumCell(7), TextCell}

\* what can be at calculated_xlsx_path
ReadFiles ==
    {NoFile}
    \cup {[ReadWorkbook(EmptyCell, EmptyCell) EXCEPT !.loadable = FALSE],
          [ReadWorkbook(EmptyCell, EmptyCell) EXCEPT !.has_sheet = FALSE]}
    \cup {ReadWorkbook(a, b) : a \in ReadCellChoices, b \in ReadCellChoices}
    \cup {WithoutCell(ReadWorkbook(EmptyCell, b), "G74") : b \in ReadCellChoices}

InitRead ==
    /\ InitRun({})
    /\ template = [exists |-> TRUE, loadable |-> TRUE, has_sheet |-> TRUE]
    /\ inputs = [r \in Runs |-> DefaultInputs]

\* one call read_results_from_xlsx(path, report_years)
ApplyRead ==
    /\ ~rd.applied
    /\ \E file \in ReadFiles, report_years \in SeqsUpTo(ReadYearChoices, MaxYears) :
          LET read == read_results_from_xlsx(file, report_years)
          IN  rd' = [applied |-> TRUE, file |-> file, report_years |-> report_years,
                     results |-> read.results, messages |-> read.messages]
    /\ UNCHANGED <<runVars, wr, xl, pdf, ui>>

NextRead == ApplyRead

SpecRead == InitRead /\ [][NextRead]_vars

\* --------------------------------- step 1 of run_calculation_scenario on its own

\* keys a caller may put in scenario_params: those of the map, and one that is not
WriteParamNames == DOMAIN INPUT_CELL_MAP \cup {"client_age"}
\* values a caller may give them
WriteValues == {PyNum(0), PyNum(500), PyText("abc"), PyNone}

\* the dictionaries scenario_params may be
WriteParamSets == UNION {[keys -> WriteValues] : keys \in SUBSET WriteParamNames}

InitWrite ==
    /\ InitRun({})
    /\ inputs = [r \in Runs |-> DefaultInputs]

\* one call run_calculation_scenario(scenario_params, scenario_name, temp_dir,
\* base_xlsx_path, cell_map, ...) up to the end of step 1
ApplyWrite ==
    /\ ~wr.applied
    /\ \E scenario_params \in WriteParamSets :
          LET step == StepOne(template, TRUE, "No Withdrawal", scenario_params,
                              INPUT_CELL_MAP)
          IN  wr' = [applied |-> TRUE, scenario_params |-> scenario_params,
                     ok |-> step.ok, input_file |-> step.input_file,
                     messages |-> step.messages]
    /\ UNCHANGED <<runVars, rd, xl, pdf, ui>>

NextWrite == ApplyWrite

SpecWrite == InitWrite /\ [][NextWrite]_vars

\* -------------------------------------------------------- create_plan_excel

\* a cell reference of the report sheet, f'{col}{current_row}'
CellRef(col, row) == <<col, row>>

\* the cells of the report sheet the model keeps: the header cells, and the grid
\* with the columns beside it, the row above it and the rows below it
ReportColumns == {"A", "B", "C", "D", "E", "F", "G"}
ReportCells ==
    {CellRef("B", 1), CellRef("B", 5), CellRef("B", 6), CellRef("C", 10),
     CellRef("E", 10)}
    \cup {CellRef(col, row) : col \in ReportColumns, row \in 11 .. 27}

\* what a cell of the report template holds: the value of an earlier report
TemplateValue == NumCell(123456)

\* what may be at template_path: nothing, a file that does not open, a workbook
\* without 'Sheet1' (its active sheet is used), a workbook with it
ReportTemplateStates ==
    { [exists |-> FALSE, loadable |-> FALSE, sheet1 |-> FALSE],
      [exists |-> TRUE, loadable |-> FALSE, sheet1 |-> FALSE],
      [exists |-> TRUE, loadable |-> TRUE, sheet1 |-> FALSE],
      [exists |-> TRUE, loadable |-> TRUE, sheet1 |-> TRUE] }

ReportTemplateCells == [c \in ReportCells |-> TemplateValue]

\* None where a value of a year, or the bytes of a report, are expected
NoValue == [is_none |-> TRUE, v |-> 0]
Value(v) == [is_none |-> FALSE, v |-> v]
NoBytes == [is_none |-> TRUE, cells |-> <<>>]
Bytes(cells) == [is_none |-> FALSE, cells |-> cells]

\* get_value_for_year(results_list, target_year): total_csv of the first entry of
\* the year
get_value_for_year(results_list, target_year) ==
    LET found == {i \in 1 .. Len(results_list) : results_list[i].year = target_year}
    IN  IF results_list = <<>> \/ found = {} THEN NoValue
        ELSE Value(results_list[CHOOSE i \in found : \A j \in found : i <= j].total_csv)

\* (variant: a plan with only one of the two values gets the text of a plan that
\* is not configured)
get_withdrawal_scenario_text_TwoTexts(start_val, amount_val, scenario_letter) ==
    IF start_val > 0 /\ amount_val > 0
    THEN StrCell("from_year_each_year", <<start_val, amount_val>>)
    ELSE StrCell("not_configured_" \o scenario_letter, <<>>)

\* get_withdrawal_scenario_text(start_val, amount_val, scenario_letter): which of
\* the four texts, and the numbers formatted into it
get_withdrawal_scenario_text(start_val, amount_val, scenario_letter) ==
    IF start_val > 0 /\ amount_val > 0
    THEN StrCell("from_year_each_year", <<start_val, amount_val>>)
    ELSE IF start_val > 0 /\ amount_val <= 0
    THEN StrCell("from_year_amount_not_set", <<start_val>>)
    ELSE IF start_val <= 0 /\ amount_val > 0
    THEN StrCell("start_not_set_each_year", <<amount_val>>)
    ELSE StrCell("not_configured_" \o scenario_letter, <<>>)

\* (variant: the columns of the two plans are exchanged)
scenario_map_Swapped == (KeyNoWithdrawal :> "B") @@ (KeyPlanA :> "F") @@ (KeyPlanB :> "D")

\* line 197: the column of each scenario
scenario_map == (KeyNoWithdrawal :> "B") @@ (KeyPlanA :> "D") @@ (KeyPlanB :> "F")

\* line 199
start_row == 12

\* calculated_data.get(key)
ScenarioList(calculated_data, key) ==
    CASE key = KeyNoWithdrawal -> calculated_data.no_withdrawal.list
      [] key = KeyPlanA -> calculated_data.plan_a.list
      [] key = KeyPlanB -> calculated_data.plan_b.list

\* (variant: the rows are counted from 1)
cell_map_results_fixed_OneBased(template_years) ==
    [year \in {template_years[i] : i \in 1 .. Len(template_years)} |->
        LET i == CHOOSE k \in 1 .. Len(template_years) :
                    /\ template_years[k] = year
                    /\ \A m \in 1 .. Len(template_years) :
                          template_years[m] = year => m <= k
        IN  [scen_key \in DOMAIN scenario_map |->
                CellRef(scenario_map[scen_key], start_row + i)]]

\* lines 200-202: cell_map_results_fixed, a dictionary keyed by year; enumerate
\* counts from 0, and a later entry of a year replaces an earlier one
cell_map_results_fixed(template_years) ==
    [year \in {template_years[i] : i \in 1 .. Len(template_years)} |->
        LET i == CHOOSE k \in 1 .. Len(template_years) :
                    /\ template_years[k] = year
                    /\ \A m \in 1 .. Len(template_years) :
                          template_years[m] = year => m <= k
        IN  [scen_key \in DOMAIN scenario_map |->
                CellRef(scenario_map[scen_key], start_row + (i - 1))]]

\* a write to a cell of the sheet, or none
NoWrite == [written |-> FALSE, cell |-> EmptyCell]
Write(cell) == [written |-> TRUE, cell |-> cell]

\* (variant: the cell of a scenario that is not in calculated_data is left alone)
ResultWrite_AbsentKept(calculated_data, scenario_key, year) ==
    IF scenario_key \in calculated_data.keys
    THEN LET value == get_value_for_year(ScenarioList(calculated_data, scenario_key), year)
         IN  IF ~value.is_none THEN Write(NumCell(value.v)) ELSE Write(EmptyCell)
    ELSE NoWrite

\* lines 208-217: what is written to the cell of a scenario and a year
ResultWrite(calculated_data, scenario_key, year) ==
    IF scenario_key \in calculated_data.keys
    THEN LET value == get_value_for_year(ScenarioList(calculated_data, scenario_key), year)
         IN  IF ~value.is_none THEN Write(NumCell(value.v)) ELSE Write(EmptyCell)
    ELSE Write(EmptyCell)

\* (variant: the annual premium is written as the total)
TotalPremium_Annual(params) == params.premium

\* lines 163-164: total_prem.  The premiums of the model are integers a float
\* holds exactly.
TotalPremium(params) == params.premium * params.years

\* lines 150-217: the sheet after create_plan_excel wrote the header cells and the
\* results grid; header numbers are in dollars, grid values as extracted
PopulateSheet(cells, calculated_data) ==
    LET params == calculated_data.parameters
        year_maps == cell_map_results_fixed(params.report_years)
        grid == {year_maps[year][key] : year \in DOMAIN year_maps,
                                        key \in DOMAIN scenario_map}
        Writers(c) == IF c \in grid
                      THEN {w \in (DOMAIN year_maps) \X (DOMAIN scenario_map) :
                               year_maps[w[1]][w[2]] = c}
                      ELSE {}
    IN  [c \in DOMAIN cells |->
            IF c = CellRef("B", 1) THEN StrCell(params.client_name, <<>>)
            ELSE IF c = CellRef("B", 5) THEN NumCell(params.premium)
            ELSE IF c = CellRef("B", 6) THEN NumCell(TotalPremium(params))
            ELSE IF c = CellRef("C", 10)
            THEN get_withdrawal_scenario_text(params.withdrawal_a_start,
                                              params.withdrawal_a_amount, "A")
            ELSE IF c = CellRef("E", 10)
            THEN get_withdrawal_scenario_text(params.withdrawal_b_start,
                                              params.withdrawal_b_amount, "B")
            ELSE IF Writers(c) # {}
            THEN LET w == CHOOSE x \in Writers(c) : TRUE
                     write == ResultWrite(calculated_data, w[2], w[1])
                 IN  IF write.written THEN write.cell ELSE cells[c]
            ELSE cells[c]]

\* create_plan_excel(calculated_data, template_path); t is what is at template_path
create_plan_excel(calculated_data, t) ==
    IF calculated_data.is_none
    THEN [bytes |-> NoBytes, messages |-> <<Msg("error", "no_calculated_data", "", 0)>>]
    ELSE IF ~t.exists
    THEN [bytes |-> NoBytes,
          messages |-> <<Msg("error", "excel_template_not_found", "", 0)>>]
    ELSE IF ~t.loadable
    THEN [bytes |-> NoBytes, messages |-> <<Msg("error", "excel_error", "", 0)>>]
    ELSE [bytes |-> Bytes(PopulateSheet(ReportTemplateCells, calculated_data)),
          messages |-> IF t.sheet1 THEN <<>>
                       ELSE <<Msg("warning", "sheet1_not_found", "", 0)>>]

\* app.py lines 276-277: the execution block calls create_plan_excel with the value
\* generate_all_scenarios returned, when that is not None
RenderExcel(r) ==
    /\ pc[r] = "done"
    /\ ~returned[r].is_none
    /\ ~excel_bytes[r].rendered
    /\ \E t \in ReportTemplateStates :
          LET made == create_plan_excel(returned[r], t)
          IN  excel_bytes' = [excel_bytes EXCEPT ![r] =
                                [rendered |-> TRUE, template |-> t,
                                 bytes |-> made.bytes, messages |-> made.messages]]
    /\ UNCHANGED <<now, elapsed, dirs, files, template, inputs, pc, temp_dir, scen,
                   calls, results, calculation_successful, output_to_return, returned,
                   st_messages, invocations, lookups, extracted, cleanups, rd, wr, xl,
                   pdf, ui>>

\* one run of generate_all_scenarios and the Excel report made of what it returned
NextReporting ==
    \/ Next
    \/ \E r \in Runs : RenderExcel(r)

SpecReporting == Init /\ [][NextReporting]_vars

\* ------------------------------------------------ create_plan_excel on its own

\* premiums of the data create_plan_excel is given on its own
ReportPremiums == {0, 1000, 10000, 250000}

ReportInputs ==
    [client_name : {"client"}, premium : ReportPremiums, w_a : WithdrawalConfigs,
     w_b : WithdrawalConfigs]

\* what run_calculation_scenario returns for scenario n when every step succeeds
\* and the office suite calculates numbers (engine = "num") or error texts
ScenarioResult(inp, n, engine) ==
    read_results_from_xlsx(
        ConvertWorkbook(
            WriteInputs(TemplateWorkbook([exists |-> TRUE, loadable |-> TRUE,
                                          has_sheet |-> TRUE]),
                        ScenarioParams(inp, n), INPUT_CELL_MAP),
            "xlsx", engine),
        FIXED_REPORT_YEARS).results

\* the results a run with inputs inp can end with when the base scenario succeeded:
\* each configured plan succeeded or not
ResultsOf(inp) ==
    LET configured == (IF RunsWithdrawalA(inp, TRUE) THEN {"Withdrawal A"} ELSE {})
                      \cup (IF RunsWithdrawalB(inp, TRUE) THEN {"Withdrawal B"} ELSE {})
    IN  {[n \in ScenarioNames |->
            IF n = "No Withdrawal" \/ n \in succeeded
            THEN ScenarioResult(inp, n, engine)
            ELSE NoResult] : succeeded \in SUBSET configured, engine \in {"num", "text"}}

\* the values create_plan_excel may be given: None, or a ScenarioSet
ReportData ==
    {NoOutput(DefaultInputs)}
    \cup UNION {{StructureFinalResults(inp, res) : res \in ResultsOf(inp)} :
                   inp \in ReportInputs}

InitReport ==
    /\ InitRun({})
    /\ template = [exists |-> TRUE, loadable |-> TRUE, has_sheet |-> TRUE]
    /\ inputs = [r \in Runs |-> DefaultInputs]

\* one call create_plan_excel(calculated_data, template_path)
ApplyExcel ==
    /\ ~xl.applied
    /\ \E calculated_data \in ReportData, t \in ReportTemplateStates :
          LET made == create_plan_excel(calculated_data, t)
          IN  xl' = [applied |-> TRUE, calculated_data |-> calculated_data,
                     template |-> t, bytes |-> made.bytes, messages |-> made.messages]
    /\ UNCHANGED <<runVars, rd, wr, pdf, ui>>

NextReport == ApplyExcel

SpecReport == InitReport /\ [][NextReport]_vars

\* -------------------------------------------------------------- create_plan_pdf

\* None where the bytes of a PDF are expected, and the bytes of a PDF file:
\* readable by the PDF library or not, empty or not, with its pages
NoPdf == [is_none |-> TRUE, empty |-> TRUE, readable |-> FALSE, pages |-> <<>>]
PdfBytes(readable, pages) ==
    [is_none |-> FALSE, empty |-> FALSE, readable |-> readable, pages |-> pages]
EmptyPdfBytes == [is_none |-> FALSE, empty |-> TRUE, readable |-> FALSE, pages |-> <<>>]

\* the cells of the report sheet a page is told apart by: those of the header
PrintedCells ==
    {CellRef("B", 1), CellRef("B", 5), CellRef("B", 6), CellRef("C", 10),
     CellRef("E", 10)}

\* the page the office suite renders from the report workbook
GeneratedPage(excel) ==
    [kind |-> "generated", cells |-> [c \in PrintedCells |-> excel.cells[c]]]
\* a page of the file at STATIC_PDF_PATH
StaticPage == [kind |-> "static", cells |-> <<>>]

\* what may be at static_pdf_path: nothing, a PDF, a file that is no PDF
StaticStates == {"absent", "mergeable", "unmergeable"}

\* What the subprocess.run of the office suite with --convert-to pdf can do: raise
\* (the timeout of 60 s expires, the binary cannot be launched), or end with an
\* exit code, having written no output, a PDF of the sheet, an empty file or a
\* file that is no PDF.
PdfToolOutcomes ==
    { [raised |-> "pdf_conversion_timeout", rc |-> 0, output |-> "none"],
      [raised |-> "pdf_conversion_launch_failure", rc |-> 0, output |-> "none"] }
    \cup [raised : {""}, rc : {0, 1}, output : {"none", "page", "empty", "corrupt"}]

\* What create_plan_pdf meets outside itself: whether find_soffice_path finds the
\* binary, whether mkdtemp and the write of the workbook succeed, what the office
\* suite does, whether os.remove and shutil.rmtree succeed.
PdfEnvs ==
    [found : BOOLEAN, mkdtemp_ok : BOOLEAN, write_ok : BOOLEAN,
     outcome : PdfToolOutcomes, remove_ok : BOOLEAN, rmtree_ok : BOOLEAN]

\* the bytes of the file the office suite wrote
OutputBytes(output, excel) ==
    CASE output = "page" -> PdfBytes(TRUE, <<GeneratedPage(excel)>>)
      [] output = "corrupt" -> PdfBytes(FALSE, <<>>)
      [] OTHER -> EmptyPdfBytes

\* lines 269-309: page1_pdf_bytes after the conversion block
PageOne(excel, env) ==
    IF ~env.mkdtemp_ok \/ ~env.write_ok \/ env.outcome.raised # "" THEN NoPdf
    ELSE IF env.outcome.rc = 0 /\ env.outcome.output # "none"
    THEN OutputBytes(env.outcome.output, excel)
    ELSE NoPdf

\* lines 269-309: the errors the conversion block shows
ConversionMessages(env) ==
    IF ~env.mkdtemp_ok \/ ~env.write_ok
    THEN <<Msg("error", "pdf_conversion_error", "", 0)>>
    ELSE IF env.outcome.raised # ""
    THEN <<Msg("error", env.outcome.raised, "", 0)>>
    ELSE IF env.outcome.rc = 0 /\ env.outcome.output # "none"
    THEN <<>>
    ELSE <<Msg("error", "pdf_conversion_failed", "", 0), Msg("error", "pdf_stderr", "", 0)>>

\* lines 278-288: the subprocess.run calls of the conversion block, in order
PdfInvocations(excel, env) ==
    IF env.mkdtemp_ok /\ env.write_ok
    THEN <<[fmt |-> "pdf", source |-> GeneratedPage(excel).cells, raised |-> env.outcome.raised,
            rc |-> env.outcome.rc, output |-> env.outcome.output]>>
    ELSE <<>>

\* the files in output_dir when the finally block starts: the workbook (created
\* before it is written) and what the office suite wrote
FilesBeforeCleanup(env) ==
    IF ~env.mkdtemp_ok THEN {}
    ELSE {"xlsx"} \cup (IF env.write_ok /\ env.outcome.output # "none" THEN {"pdf"} ELSE {})

\* the paths the finally block knows: temp_excel_path is set after the write,
\* output_pdf_path after subprocess.run returned
KnownPaths(env) ==
    IF ~env.mkdtemp_ok \/ ~env.write_ok THEN {}
    ELSE {"xlsx"} \cup (IF env.outcome.raised = "" THEN {"pdf"} ELSE {})

\* (variant: the directory is removed only after a conversion that gave a page)
TempDirAfter_OnSuccess(excel, env) ==
    [created |-> env.mkdtemp_ok,
     rmtree_called |-> env.mkdtemp_ok /\ ~PageOne(excel, env).is_none,
     exists |-> env.mkdtemp_ok /\ (PageOne(excel, env).is_none \/ ~env.rmtree_ok)]

\* lines 310-319: output_dir after the finally block
TempDirAfter(excel, env) ==
    [created |-> env.mkdtemp_ok,
     rmtree_called |-> env.mkdtemp_ok,
     exists |-> env.mkdtemp_ok /\ ~env.rmtree_ok]

\* lines 310-319: the warnings of the finally block
CleanupMessages(excel, env) ==
    LET there == FilesBeforeCleanup(env) \cap KnownPaths(env)
        dir == TempDirAfter(excel, env)
    IN  (IF "xlsx" \in there /\ ~env.remove_ok
         THEN <<Msg("warning", "temp_excel_not_removed", "", 0)>> ELSE <<>>)
        \o (IF "pdf" \in there /\ ~env.remove_ok
            THEN <<Msg("warning", "temp_pdf_not_removed", "", 0)>> ELSE <<>>)
        \o (IF dir.rmtree_called /\ dir.exists
            THEN <<Msg("warning", "temp_dir_not_removed", "", 0)>> ELSE <<>>)

\* (variant: the static file comes first)
MergePdf_StaticFirst(page1, static) ==
    IF ~page1.readable
    THEN [bytes |-> NoPdf, messages |-> <<Msg("error", "pdf_merge_error", "", 0)>>]
    ELSE CASE static = "mergeable" ->
                [bytes |-> PdfBytes(TRUE, <<StaticPage>> \o page1.pages),
                 messages |-> <<>>]
           [] static = "unmergeable" ->
                [bytes |-> PdfBytes(TRUE, page1.pages),
                 messages |-> <<Msg("warning", "static_pdf_not_merged", "", 0)>>]
           [] static = "absent" ->
                [bytes |-> PdfBytes(TRUE, page1.pages),
                 messages |-> <<Msg("warning", "static_pdf_not_found", "", 0)>>]

\* lines 326-353: the merge of page 1 (not None, not empty) with what is at
\* static_pdf_path
MergePdf(page1, static) ==
    IF ~page1.readable
    THEN [bytes |-> NoPdf, messages |-> <<Msg("error", "pdf_merge_error", "", 0)>>]
    ELSE CASE static = "mergeable" ->
                [bytes |-> PdfBytes(TRUE, page1.pages \o <<StaticPage>>),
                 messages |-> <<>>]
           [] static = "unmergeable" ->
                [bytes |-> PdfBytes(TRUE, page1.pages),
                 messages |-> <<Msg("warning", "static_pdf_not_merged", "", 0)>>]
           [] static = "absent" ->
                [bytes |-> PdfBytes(TRUE, page1.pages),
                 messages |-> <<Msg("warning", "static_pdf_not_found", "", 0)>>]

\* what create_plan_pdf gives when it returns before the conversion block
PdfReturnsEarly(excel, shown, looked_up) ==
    [bytes |-> NoPdf, messages |-> shown, excel_made |-> ~excel.is_none,
     lookups |-> looked_up,
     invocations |-> <<>>, page1 |-> NoPdf,
     output_dir |-> [created |-> FALSE, rmtree_called |-> FALSE, exists |-> FALSE]]

\* lines 244-353: create_plan_pdf, made being what its call of create_plan_excel
\* gives
PdfAfterExcel(calculated_data, made, static, env) ==
    IF calculated_data.is_none
    THEN PdfReturnsEarly(NoBytes, <<Msg("error", "pdf_no_calculated_data", "", 0)>>, 0)
    ELSE
    LET excel == made.bytes
    IN  IF excel.is_none
        THEN PdfReturnsEarly(excel,
                 made.messages \o <<Msg("error", "pdf_intermediate_excel_failed", "", 0)>>, 0)
        ELSE IF ~env.found
        THEN PdfReturnsEarly(excel,
                 made.messages \o <<Msg("error", "pdf_soffice_not_found", "", 0)>>, 1)
        ELSE
        LET page1 == PageOne(excel, env)
            before == made.messages \o ConversionMessages(env) \o CleanupMessages(excel, env)
            merged == MergePdf(page1, static)
        IN  [bytes |-> IF page1.is_none \/ page1.empty THEN NoPdf ELSE merged.bytes,
             messages |-> IF page1.is_none \/ page1.empty
                          THEN before \o <<Msg("error", "pdf_conversion_step_failed", "", 0)>>
                          ELSE before \o merged.messages,
             excel_made |-> TRUE,
             lookups |-> 1,
             invocations |-> PdfInvocations(excel, env),
             page1 |-> page1,
             output_dir |-> TempDirAfter(excel, env)]

\* create_plan_pdf(calculated_data, template_path_excel, static_pdf_path); t is
\* what is at template_path_excel, static what is at static_pdf_path
create_plan_pdf(calculated_data, t, static, env) ==
    PdfAfterExcel(calculated_data, create_plan_excel(calculated_data, t), static, env)

\* the values create_plan_pdf is given on its own: None, and the sets a run with
\* the default form values can return
PdfData ==
    {NoOutput(DefaultInputs)}
    \cup {StructureFinalResults(DefaultInputs, res) : res \in ResultsOf(DefaultInputs)}

\* the calls made of create_plan_pdf on its own: the data, what is at
\* template_path_excel, and what the call of create_plan_excel gives for them
PdfCalls ==
    {[calculated_data |-> d, t |-> t, excel_made |-> create_plan_excel(d, t)] :
        d \in PdfData, t \in ReportTemplateStates}

InitPdf ==
    /\ InitRun({})
    /\ template = [exists |-> TRUE, loadable |-> TRUE, has_sheet |-> TRUE]
    /\ inputs = [r \in Runs |-> DefaultInputs]

\* one call create_plan_pdf(calculated_data, template_path_excel, static_pdf_path)
ApplyPdf ==
    /\ ~pdf.applied
    /\ \E call \in PdfCalls, static \in StaticStates, env \in PdfEnvs :
          LET made == PdfAfterExcel(call.calculated_data, call.excel_made, static, env)
          IN  pdf' = [applied |-> TRUE, no_data |-> call.calculated_data.is_none,
                      parameters |-> call.calculated_data.parameters,
                      template |-> call.t, static |-> static, env |-> env,
                      bytes |-> made.bytes, messages |-> made.messages,
                      excel_made |-> made.excel_made, lookups |-> made.lookups,
                      invocations |-> made.invocations, page1 |-> made.page1,
                      output_dir |-> made.output_dir]
    /\ UNCHANGED <<runVars, rd, wr, xl, ui>>

NextPdf == ApplyPdf

SpecPdf == InitPdf /\ [][NextPdf]_vars

\* ------------------------------------------------------- the page, app.py 176-335

\* what the number inputs of the sidebar can hold: min_value = 0
WidgetConfigs == {w \in WithdrawalConfigs : w.start >= 0 /\ w.amount >= 0}

\* the values of the input widgets of a session
UiInputs == {inp \in InputSets : inp.w_a \in WidgetConfigs /\ inp.w_b \in WidgetConfigs}

\* session_state['calculated_data']: None, or the set calculation `of` returned
NoData == [is_none |-> TRUE, of |-> 0, keys |-> {},
           parameters |-> ReportParameters(DefaultInputs)]
StoredData(of, result) ==
    [is_none |-> FALSE, of |-> of, keys |-> result.keys,
     parameters |-> result.parameters]

\* session_state['pdf_bytes'] and session_state['excel_bytes']: None, or the bytes
\* made in calculation `of`
NoArtifact == [is_none |-> TRUE, of |-> 0, content |-> <<>>]
Artifact(of, content) == [is_none |-> FALSE, of |-> of, content |-> content]

\* what the last script run did: how it ended, whether the button gave true, how
\* the execution block ended, the reports it called for and those it was given
RunRecord(kind, clicked, outcome, attempted, made) ==
    [kind |-> kind, clicked |-> clicked, outcome |-> outcome, attempted |-> attempted,
     made |-> made]

\* lines 188-197: session_state after initialize_session_state in a new session
SessionDefaults ==
    [open |-> TRUE,
     widgets |-> DefaultInputs,
     calculation_running |-> FALSE,
     calculated_data |-> NoData,
     pdf_bytes |-> NoArtifact,
     excel_bytes |-> NoArtifact,
     rerun_requested |-> FALSE,
     button_disabled |-> FALSE,
     status |-> <<>>,
     downloads |-> {},
     accepted |-> 0,
     executions |-> 0,
     last |-> RunRecord("none", FALSE, "", {}, {})]

\* lines 219-225: the validation of the trigger block
ValidInput(w) ==
    /\ ~(w.w_a.start > 0 /\ w.w_a.amount <= 0)
    /\ ~(w.w_b.start > 0 /\ w.w_b.amount <= 0)

\* lines 219-225: the errors the validation puts into the status placeholder
ValidationMessages(w) ==
    (IF w.w_a.start > 0 /\ w.w_a.amount <= 0
     THEN <<Msg("error", "amount_a_missing", "", 0)>> ELSE <<>>)
    \o (IF w.w_b.start > 0 /\ w.w_b.amount <= 0
        THEN <<Msg("error", "amount_b_missing", "", 0)>> ELSE <<>>)

\* lines 314-335: the download buttons the display section shows
Downloads(s) ==
    IF s.calculated_data.is_none THEN {}
    ELSE (IF ~s.pdf_bytes.is_none THEN {"pdf"} ELSE {})
         \cup (IF ~s.excel_bytes.is_none THEN {"excel"} ELSE {})

\* lines 314-335 reached: the script run ends after the display section
Display(s) == [s EXCEPT !.downloads = Downloads(s)]

\* what is at EXCEL_TEMPLATE_PATH when the page makes its reports
UiTemplateStates ==
    { [exists |-> FALSE, loadable |-> FALSE, sheet1 |-> FALSE],
      [exists |-> TRUE, loadable |-> TRUE, sheet1 |-> TRUE] }

\* what create_plan_pdf meets when the page calls it
UiPdfEnvs ==
    { env \in PdfEnvs :
        /\ env.mkdtemp_ok /\ env.write_ok /\ env.remove_ok /\ env.rmtree_ok
        /\ env.outcome \in {[raised |-> "pdf_conversion_timeout", rc |-> 0, output |-> "none"],
                            [raised |-> "", rc |-> 0, output |-> "page"]} }

\* the sets generate_all_scenarios can return for the inputs of the page, with
\* what create_plan_excel makes of each
UiCalls ==
    UNION {{[inputs |-> inp,
             returned |-> StructureFinalResults(inp, res),
             t |-> t,
             excel_made |-> create_plan_excel(StructureFinalResults(inp, res), t)] :
               res \in ResultsOf(inp), t \in UiTemplateStates} : inp \in UiInputs}

\* what the page looks at in the value generate_all_scenarios returned: whether it
\* is None, its keys, its parameters
Summary(result) ==
    [is_none |-> result.is_none, keys |-> result.keys, parameters |-> result.parameters]

\* a report as the page keeps it: the header cells of the workbook
ExcelContent(made) == [c \in PrintedCells |-> made.bytes.cells[c]]

\* What one pass through the execution block can meet.  kind: the script run is
\* stopped by the framework before the try statement is entered; an exception is
\* raised inside it; the run is stopped inside it (an exception that is no
\* Exception) at the calculation, at the PDF report, at the Excel report or at the
\* final status; or the block runs to its end.
NoReports(kind, at, inp) ==
    [kind |-> kind, at |-> at, returned |-> Summary(NoOutput(inp)), pdf |-> NoPdf,
     excel_none |-> TRUE, excel |-> <<>>]

OutcomesFor(inp) ==
    {NoReports("stopped_before_try", "", inp), NoReports("raised", "", inp),
     NoReports("stopped", "calculation", inp), NoReports("completed", "", inp)}
    \cup
    LET mine == {c \in UiCalls : c.inputs = inp}
        pairs == {p \in mine \X mine : p[1].returned = p[2].returned}
    IN  UNION {{[kind |-> k[1], at |-> k[2],
                 returned |-> Summary(p[1].returned),
                 pdf |-> PdfAfterExcel(p[1].returned, p[1].excel_made, static, env).bytes,
                 excel_none |-> p[2].excel_made.bytes.is_none,
                 excel |-> IF p[2].excel_made.bytes.is_none THEN <<>>
                           ELSE ExcelContent(p[2].excel_made)] :
                   p \in pairs, static \in StaticStates, env \in UiPdfEnvs} :
                 k \in {<<"completed", "">>, <<"stopped", "pdf">>,
                        <<"stopped", "excel">>, <<"stopped", "status">>}}

\* the outcomes for each setting of the input widgets
UiOutcomes == UNION {{<<inp, x>> : x \in OutcomesFor(inp)} : inp \in UiInputs}

ExecutionOutcomes(inp) == {p[2] : p \in {q \in UiOutcomes : q[1] = inp}}

\* (variant: calculation_running is cleared only when the block ran to its end)
RunningAfterBlock_OnSuccess(x) == x.kind # "completed"

\* line 307: calculation_running after the finally clause of the execution block
RunningAfterBlock(x) == FALSE

\* (variant: the Excel report is only made when the PDF report was)
AttemptsExcel_AfterPdf(x) == ~x.pdf.is_none

\* lines 275-281: create_plan_excel is called after create_plan_pdf returned
AttemptsExcel(x) == TRUE

\* lines 286-289: the final status of a calculation that succeeded
OverallStatus(pdf_result, excel_result) ==
    IF ~pdf_result.is_none \/ ~excel_result.is_none
    THEN Msg("success", "reports_done", "", 0)
    ELSE Msg("error", "both_reports_failed", "", 0)

\* lines 240-309: the execution block, entered with calculation_running true, in
\* the session s with outcome x
ExecutionBlock(s, x) ==
    LET waiting == <<Msg("info", "calculating", "", 0), Msg("info", "do_not_click", "", 0)>>
        id == s.executions + 1
        data == StoredData(id, x.returned)
        pdf_result == IF x.pdf.is_none THEN NoArtifact ELSE Artifact(id, x.pdf.pages)
        excel_result == IF ~AttemptsExcel(x) \/ x.excel_none THEN NoArtifact
                       ELSE Artifact(id, x.excel)
        pdf_status == IF x.pdf.is_none THEN Msg("warning", "pdf_failed", "", 0)
                      ELSE Msg("info", "pdf_generated", "", 0)
        excel_status == IF excel_result.is_none THEN Msg("warning", "excel_failed", "", 0)
                        ELSE Msg("info", "excel_generated", "", 0)
        attempts == {"pdf"} \cup (IF AttemptsExcel(x) THEN {"excel"} ELSE {})
        made == (IF x.pdf.is_none THEN {} ELSE {"pdf"})
                \cup (IF x.excel_none THEN {} ELSE {"excel"})
        after == [s EXCEPT !.calculation_running = RunningAfterBlock(x),
                           !.rerun_requested = TRUE,
                           !.executions = id]
    IN  CASE x.kind = "stopped_before_try" ->
               [s EXCEPT !.status = waiting, !.rerun_requested = TRUE,
                         !.last = RunRecord("stopped_before_try", s.last.clicked, x.kind, {}, {})]
          [] x.kind = "raised" ->
               [after EXCEPT !.calculated_data = NoData, !.pdf_bytes = NoArtifact,
                             !.excel_bytes = NoArtifact,
                             !.status = waiting \o <<Msg("error", "unexpected_error", "", 0)>>,
                             !.last = RunRecord("executed", s.last.clicked, x.kind, {}, {})]
          [] x.kind = "stopped" /\ x.at = "calculation" ->
               [after EXCEPT !.status = waiting,
                             !.last = RunRecord("executed", s.last.clicked, x.kind, {}, {})]
          [] x.kind = "stopped" /\ x.at = "pdf" ->
               [after EXCEPT !.calculated_data = data,
                             !.status = waiting \o <<Msg("info", "calculation_done", "", 0)>>,
                             !.last = RunRecord("executed", s.last.clicked, x.kind, {"pdf"}, {})]
          [] x.kind = "stopped" /\ x.at = "excel" ->
               [after EXCEPT !.calculated_data = data, !.pdf_bytes = pdf_result,
                             !.status = waiting
                                        \o <<Msg("info", "calculation_done", "", 0), pdf_status>>,
                             !.last = RunRecord("executed", s.last.clicked, x.kind,
                                                {"pdf"}, made \cap {"pdf"})]
          [] x.kind = "stopped" /\ x.at = "status" ->
               [after EXCEPT !.calculated_data = data, !.pdf_bytes = pdf_result,
                             !.excel_bytes = excel_result,
                             !.status = waiting
                                        \o <<Msg("info", "calculation_done", "", 0), pdf_status,
                                             excel_status>>,
                             !.last = RunRecord("executed", s.last.clicked, x.kind,
                                                attempts, made)]
          [] x.kind = "completed" /\ x.returned.is_none ->
               [after EXCEPT !.calculated_data = NoData, !.pdf_bytes = NoArtifact,
                             !.excel_bytes = NoArtifact,
                             !.status = waiting
                                        \o <<Msg("error", "calculation_error_no_reports", "", 0)>>,
                             !.last = RunRecord("executed", s.last.clicked, "failed", {}, {})]
          [] x.kind = "completed" /\ ~x.returned.is_none ->
               [after EXCEPT !.calculated_data = data, !.pdf_bytes = pdf_result,
                             !.excel_bytes = excel_result,
                             !.status = waiting
                                        \o <<Msg("info", "calculation_done", "", 0), pdf_status,
                                             excel_status,
                                             OverallStatus(pdf_result, excel_result)>>,
                             !.last = RunRecord("executed", s.last.clicked, "succeeded",
                                                attempts, made)]

\* line 217: the condition of the trigger block
Triggers(calculate_button, calculation_running) ==
    calculate_button /\ ~calculation_running

\* (variant: a new request keeps the reports of the last one)
ClearedOnAccept_DataOnly(s) == [s EXCEPT !.calculated_data = NoData]

\* lines 230-232: what the trigger block clears when it accepts a request
ClearedOnAccept(s) ==
    [s EXCEPT !.calculated_data = NoData, !.pdf_bytes = NoArtifact,
              !.excel_bytes = NoArtifact]

\* (variant: the calculation starts whatever the withdrawal inputs are)
Accepts_Unvalidated(w) == TRUE

\* line 227: the trigger block goes on when valid_input is still true
Accepts(w) == ValidInput(w)

\* One run of the script, lines 176-335, in the session s: the widgets hold w, the
\* button gives calculate_button, and the execution block, when it is entered,
\* meets x.  The run ends at the st.rerun() of the trigger block, at that of the
\* execution block, or after the display section.
ScriptRun(s, w, calculate_button, x) ==
    LET drawn == [s EXCEPT !.widgets = w,
                           !.button_disabled = s.calculation_running,
                           !.status = <<>>,
                           !.downloads = {},
                           !.rerun_requested = FALSE,
                           !.last = RunRecord("shown", calculate_button, "", {}, {})]
    IN  IF Triggers(calculate_button, s.calculation_running)
        THEN IF Accepts(w)
             THEN [ClearedOnAccept(drawn) EXCEPT
                      !.calculation_running = TRUE,
                      !.rerun_requested = TRUE,
                      !.accepted = s.accepted + 1,
                      !.last = RunRecord("accepted", TRUE, "", {}, {})]
             ELSE Display([drawn EXCEPT
                              !.status = ValidationMessages(w),
                              !.last = RunRecord("rejected", TRUE, "", {}, {})])
        ELSE IF s.calculation_running
        THEN ExecutionBlock(drawn, x)
        ELSE Display(drawn)

\* no pass through the execution block
NotExecuting == NoReports("none", "", DefaultInputs)

\* the session is opened: the first run of the script
OpenSession ==
    /\ ~ui.open
    /\ ui' = ScriptRun(SessionDefaults, DefaultInputs, FALSE, NotExecuting)
    /\ UNCHANGED <<runVars, rd, wr, xl, pdf>>

\* the user changes the withdrawal inputs: the script runs again
EditWidgets ==
    /\ ui.open /\ ~ui.rerun_requested
    /\ \E w \in UiInputs :
          /\ w # ui.widgets
          /\ ui' = ScriptRun(ui, w, FALSE, NotExecuting)
    /\ UNCHANGED <<runVars, rd, wr, xl, pdf>>

\* the user clicks the button, which the page shows enabled: the script runs with
\* calculate_button true
ClickCalculate ==
    /\ ui.open /\ ~ui.rerun_requested
    /\ ~ui.button_disabled
    /\ ui.accepted < MaxClicks
    /\ ui' = ScriptRun(ui, ui.widgets, TRUE, NotExecuting)
    /\ UNCHANGED <<runVars, rd, wr, xl, pdf>>

\* the run st.rerun() asked for while calculation_running is true, stopped by the
\* framework at the first st.info of the execution block: the user did something
\* meanwhile (changed an input, or clicked the button still shown enabled)
InterruptedRun ==
    /\ ui.open /\ ui.rerun_requested /\ ui.calculation_running
    /\ \E w \in UiInputs, calculate_button \in BOOLEAN :
          /\ calculate_button => ~ui.button_disabled
          /\ w # ui.widgets \/ calculate_button
          /\ ui' = ScriptRun(ui, w, calculate_button,
                             NoReports("stopped_before_try", "", w))
    /\ UNCHANGED <<runVars, rd, wr, xl, pdf>>

\* the run st.rerun() asked for while calculation_running is true: it passes
\* through the execution block
ExecutingRun ==
    /\ ui.open /\ ui.rerun_requested /\ ui.calculation_running
    /\ \E calculate_button \in BOOLEAN :
          /\ calculate_button => ~ui.button_disabled
          /\ \E x \in ExecutionOutcomes(ui.widgets) :
                /\ x.kind # "stopped_before_try"
                /\ ui' = ScriptRun(ui, ui.widgets, calculate_button, x)
    /\ UNCHANGED <<runVars, rd, wr, xl, pdf>>

\* the run the st.rerun() of the execution block asked for
DisplayRun ==
    /\ ui.open /\ ui.rerun_requested /\ ~ui.calculation_running
    /\ ui' = ScriptRun(ui, ui.widgets, FALSE, NotExecuting)
    /\ UNCHANGED <<runVars, rd, wr, xl, pdf>>

InitUI ==
    /\ InitRun({})
    /\ template = [exists |-> TRUE, loadable |-> TRUE, has_sheet |-> TRUE]
    /\ inputs = [r \in Runs |-> DefaultInputs]

NextUI ==
    \/ OpenSession
    \/ EditWidgets
    \/ ClickCalculate
    \/ InterruptedRun
    \/ ExecutingRun
    \/ DisplayRun

\* the framework runs the script when st.rerun() asked for it
FairUI == WF_vars(ExecutingRun) /\ WF_vars(DisplayRun)

SpecUI == InitUI /\ [][NextUI]_vars /\ FairUI

\* ------------------------------------------------------------ properties

Done(r) == pc[r] = "done"

CountTag(r, tag) ==
    Cardinality({i \in 1 .. Len(st_messages[r]) : st_messages[r][i].tag = tag})

HasTag(r, tag) == \E i \in 1 .. Len(st_messages[r]) : st_messages[r][i].tag = tag

\* generate_all_scenarios reported that scenario n failed
ScenarioFailed(r, n) ==
    \E i \in 1 .. Len(st_messages[r]) :
        st_messages[r][i] = Msg("error", "calculation_failed", n, 0)

Disabled(w) == w.start <= 0 \/ w.amount <= 0

\* C1: a withdrawal configuration (A or B) with start year <= 0 or amount <= 0 is
\* never a key of the ScenarioSet the run builds or returns, and no results are
\* ever stored for it.
C1_DisabledExcluded ==
    \A r \in Runs :
        /\ Disabled(inputs[r].w_a) =>
              /\ KeyPlanA \notin returned[r].keys
              /\ KeyPlanA \notin output_to_return[r].keys
              /\ results[r]["Withdrawal A"].is_none
              /\ returned[r].plan_a.is_none
        /\ Disabled(inputs[r].w_b) =>
              /\ KeyPlanB \notin returned[r].keys
              /\ KeyPlanB \notin output_to_return[r].keys
              /\ results[r]["Withdrawal B"].is_none
              /\ returned[r].plan_b.is_none

\* a run returned a ScenarioSet with plan B in it while plan A had a start year
\* but no amount
C1_Witness ==
    \E r \in Runs :
        /\ Done(r) /\ ~returned[r].is_none
        /\ inputs[r].w_a.start > 0 /\ inputs[r].w_a.amount <= 0
        /\ returned[r].keys = {KeyNoWithdrawal, KeyPlanB}

\* the binary could not be located in the run: it was looked for, and never found
NeverLocated(r) ==
    /\ lookups[r] # <<>>
    /\ \A i \in 1 .. Len(lookups[r]) : ~lookups[r][i]

\* C2: when the binary cannot be located, the run returns no ScenarioSet and
\* reports "tool not found" exactly once, not once per scenario.
C2_ToolNotFoundOnce ==
    \A r \in Runs :
        Done(r) /\ NeverLocated(r) =>
            /\ returned[r].is_none
            /\ CountTag(r, "soffice_not_found") = 1
            /\ calls[r] = <<"No Withdrawal">>

\* a run with both withdrawal plans configured ended on a failed lookup
C2_Witness ==
    \E r \in Runs :
        /\ Done(r) /\ NeverLocated(r)
        /\ ~Disabled(inputs[r].w_a) /\ ~Disabled(inputs[r].w_b)

\* C3: when a scenario of a run fails the run stops at that scenario (no later
\* scenario is started), and nothing is run twice.
C3_StopsAtFailedScenario ==
    \A r \in Runs :
        /\ \A i \in 1 .. Len(calls[r]) :
              ScenarioFailed(r, calls[r][i]) => i = Len(calls[r])
        /\ \A i, j \in 1 .. Len(calls[r]) : calls[r][i] = calls[r][j] => i = j

\* C4: a conversion that times out, in any scenario, makes the run return no result.
C4_TimeoutFailsRun ==
    \A r \in Runs :
        Done(r) /\ HasTag(r, "conversion_timeout") => returned[r].is_none

\* C5: a failed lookup of the binary, in any scenario, makes the run return no
\* result.
C5_LookupFailureFailsRun ==
    \A r \in Runs :
        Done(r) /\ (\E i \in 1 .. Len(lookups[r]) : ~lookups[r][i]) => returned[r].is_none

\* C6: a run that created its workspace attempts to delete it exactly once before
\* it returns, whatever the scenarios did; a failed deletion adds a warning and
\* the run returns what it had structured.
C6_CleanupAlwaysAttempted ==
    \A r \in Runs :
        Done(r) /\ temp_dir[r] # NoTempDir =>
            /\ Len(cleanups[r]) = 1
            /\ returned[r] = StructureFinalResults(inputs[r], results[r])
            /\ ~cleanups[r][1] =>
                  /\ st_messages[r][Len(st_messages[r])] =
                        Msg("warning", "cleanup_failed", "", 0)
                  /\ CountTag(r, "cleanup_failed") = 1
            /\ cleanups[r][1] => ~HasTag(r, "cleanup_failed") /\ temp_dir[r] \notin dirs

\* a run returned a ScenarioSet although the deletion failed, after a scenario failed
C6_Witness ==
    \E r \in Runs :
        /\ Done(r) /\ cleanups[r] = <<FALSE>>
        /\ ~returned[r].is_none
        /\ ScenarioFailed(r, "Withdrawal A")

\* the conversions of scenario n in run r, in order
ConversionsOf(r, n) == SelectSeq(invocations[r], LAMBDA e : e.scenario = n)

ExtractionsOf(r, n) == SelectSeq(extracted[r], LAMBDA e : e.scenario = n)

\* C8: a conversion is taken for successful exactly when the process ended with
\* exit code 0 and the expected output file exists; after any other outcome the
\* scenario has no result, makes no further conversion or extraction, and no
\* conversion is made twice.
C8_ConversionSuccessOrFail ==
    \A r \in Runs : \A n \in ScenarioNames :
        LET convs == ConversionsOf(r, n)
        IN  /\ \A i \in 1 .. Len(convs) :
                  /\ convs[i].successful <=>
                        (convs[i].raised = "" /\ convs[i].rc = 0 /\ convs[i].output.exists)
                  /\ ~convs[i].successful =>
                        /\ i = Len(convs)
                        /\ ExtractionsOf(r, n) = <<>>
                        /\ results[r][n].is_none
                        /\ scen[r] # n
            /\ \A i, j \in 1 .. Len(convs) : convs[i].fmt = convs[j].fmt => i = j

\* the second conversion of a scenario ended with exit code 0 but without its
\* output file, and the run is over
C8_Witness ==
    \E r \in Runs :
        /\ Done(r)
        /\ \E i \in 1 .. Len(invocations[r]) :
              /\ invocations[r][i].fmt = "xlsx"
              /\ invocations[r][i].raised = "" /\ invocations[r][i].rc = 0
              /\ ~invocations[r][i].output.exists

\* the workbook run_calculation_scenario writes for scenario n of run r
WrittenInput(r, n) ==
    WriteInputs(TemplateWorkbook(template), ScenarioParams(inputs[r], n), INPUT_CELL_MAP)

\* C9: in every scenario the first conversion reads the written input; the second
\* conversion is made only after the first succeeded and reads the first one's
\* output; results are extracted only from the output of a successful second
\* conversion.
C9_TwoHopOrder ==
    \A r \in Runs : \A n \in ScenarioNames :
        LET convs == ConversionsOf(r, n)
            reads == ExtractionsOf(r, n)
        IN  /\ Len(convs) <= 2 /\ Len(reads) <= 1
            /\ Len(convs) >= 1 =>
                  /\ convs[1].fmt = "ods"
                  /\ convs[1].source = WrittenInput(r, n)
            /\ Len(convs) = 2 =>
                  /\ convs[1].successful
                  /\ convs[2].fmt = "xlsx"
                  /\ convs[2].source = convs[1].output
                  /\ convs[2].source.fmt = "ods"
            /\ Len(reads) = 1 =>
                  /\ Len(convs) = 2 /\ convs[2].successful
                  /\ reads[1].file = convs[2].output
                  /\ reads[1].file.fmt = "xlsx"

\* results of withdrawal plan B were extracted
C9_Witness ==
    \E r \in Runs :
        /\ Len(ExtractionsOf(r, "Withdrawal B")) = 1
        /\ ~results[r]["Withdrawal B"].is_none

\* C7: the workspace of a run is exclusive to it: two runs never have the same
\* workspace directory.
C7_ExclusiveWorkspace ==
    \A r1, r2 \in Runs :
        (r1 # r2 /\ temp_dir[r1] # NoTempDir /\ temp_dir[r2] # NoTempDir
            /\ ~Done(r1) /\ ~Done(r2))
        => temp_dir[r1] # temp_dir[r2]

\* C7, its consequence: the files a run has put into its workspace stay there
\* while the run is in a scenario, whatever the other runs do.
C7_FilesKeptFromOthers ==
    [][\A r \in Runs :
          (pc[r] = "convert_ods" /\ pc'[r] = "convert_ods")
          => (InputPath(r) \in DOMAIN files => InputPath(r) \in DOMAIN files')]_vars

\* C10: when read_results_from_xlsx returns a result it has exactly one entry per
\* requested year, in the requested order, and a year that is not in the
\* year-to-cell table has the value zero.
C10_OneEntryPerYear ==
    rd.applied /\ ~rd.results.is_none =>
        /\ Len(rd.results.list) = Len(rd.report_years)
        /\ \A i \in 1 .. Len(rd.report_years) :
              /\ rd.results.list[i].year = rd.report_years[i]
              /\ rd.report_years[i] \notin DOMAIN YEAR_TO_CELL_MAP
                    => rd.results.list[i].total_csv = 0

\* a list of the longest length was read in which a year of the table with a
\* value follows a year that is not in the table
C10_Witness ==
    /\ rd.applied /\ ~rd.results.is_none
    /\ Len(rd.report_years) = MaxYears
    /\ \E i, j \in 1 .. Len(rd.report_years) :
          /\ i < j
          /\ rd.report_years[i] \notin DOMAIN YEAR_TO_CELL_MAP
          /\ rd.report_years[j] \in DOMAIN YEAR_TO_CELL_MAP
          /\ rd.results.list[j].total_csv > 0

\* what read_results_from_xlsx found in the cell of the year at index i
ReadCell(i) == SheetValue(rd.file, YEAR_TO_CELL_MAP[rd.report_years[i]])

ReadableFile == rd.file.exists /\ rd.file.loadable /\ rd.file.has_sheet

\* C11: when a mapped cell holds text that is no number, read_results_from_xlsx
\* still returns a list with one entry per year: the entry of that year is zero,
\* and the years whose cells hold numbers have their rounded values.
C11_TextCellRecordsZero ==
    rd.applied /\ ReadableFile =>
        /\ ~rd.results.is_none
        /\ Len(rd.results.list) = Len(rd.report_years)
        /\ \A i \in 1 .. Len(rd.report_years) :
              rd.report_years[i] \in DOMAIN YEAR_TO_CELL_MAP =>
                  /\ ReadCell(i).kind = "text" => rd.results.list[i].total_csv = 0
                  /\ ReadCell(i).kind = "num"
                        => rd.results.list[i].total_csv = Round2(ReadCell(i).v)

\* a text cell was read, and a cell with a number after it
C11_Witness ==
    /\ rd.applied /\ ReadableFile /\ ~rd.results.is_none
    /\ \E i, j \in 1 .. Len(rd.report_years) :
          /\ i < j
          /\ rd.report_years[i] \in DOMAIN YEAR_TO_CELL_MAP
          /\ rd.report_years[j] \in DOMAIN YEAR_TO_CELL_MAP
          /\ ReadCell(i).kind = "text"
          /\ rd.results.list[i].total_csv = 0
          /\ ReadCell(j).kind = "num"
          /\ rd.results.list[j].total_csv > 0

\* the three defects of the cell of the year at index i
CellDefect(i) ==
    \/ rd.report_years[i] \notin DOMAIN YEAR_TO_CELL_MAP
    \/ YEAR_TO_CELL_MAP[rd.report_years[i]] \notin DOMAIN rd.file.cells
    \/ ReadCell(i).kind \in {"none", "text"}

\* C12: for a year that is not in the table, a cell that is absent or empty, and
\* a value that is no number, the entry of the year is zero and a warning that
\* names the year was shown.
C12_DefectsWarned ==
    rd.applied /\ ReadableFile =>
        \A i \in 1 .. Len(rd.report_years) :
            CellDefect(i) =>
                /\ ~rd.results.is_none
                /\ rd.results.list[i].total_csv = 0
                /\ \E k \in 1 .. Len(rd.messages) :
                      /\ rd.messages[k].level = "warning"
                      /\ rd.messages[k].year = rd.report_years[i]

\* C13: when the file does not exist, cannot be opened, or has no calculation
\* sheet, read_results_from_xlsx returns None (no list, not a shorter one) and
\* shows an error.
C13_NoResultNoPartialList ==
    rd.applied /\ ~ReadableFile =>
        /\ rd.results = NoResult
        /\ \E k \in 1 .. Len(rd.messages) : rd.messages[k].level = "error"

\* a workbook without the sheet was read for several years
C13_Witness ==
    /\ rd.applied /\ rd.results.is_none
    /\ rd.file.exists /\ rd.file.loadable /\ ~rd.file.has_sheet
    /\ Len(rd.report_years) = MaxYears

\* the template is missing, or it opens and has no calculation sheet
TemplateUnusable ==
    ~template.exists \/ (template.loadable /\ ~template.has_sheet)

\* C14: when the template is missing or has no calculation sheet, the binary is
\* never located and never invoked, and once run_calculation_scenario returned
\* the scenario has no result and an error of step 1 was shown.
C14_NoTemplateNoTool ==
    \A r \in Runs :
        TemplateUnusable =>
            /\ lookups[r] = <<>>
            /\ invocations[r] = <<>>
            /\ pc[r] \in {"structure", "cleanup", "done"} /\ calls[r] # <<>> =>
                  /\ calls[r] = <<"No Withdrawal">>
                  /\ results[r]["No Withdrawal"].is_none
                  /\ ~template.exists => HasTag(r, "base_not_found")
                  /\ template.exists =>
                        HasTag(r, "sheet_not_found") \/ HasTag(r, "prepare_error")
                  /\ \E i \in 1 .. Len(st_messages[r]) :
                        /\ st_messages[r][i].level = "error"
                        /\ st_messages[r][i].tag \in
                              {"base_not_found", "sheet_not_found", "prepare_error"}

\* a run with both plans configured ended on a template without the sheet
C14_Witness ==
    \E r \in Runs :
        /\ Done(r)
        /\ template.exists /\ template.loadable /\ ~template.has_sheet
        /\ HasTag(r, "sheet_not_found")
        /\ ~Disabled(inputs[r].w_a) /\ ~Disabled(inputs[r].w_b)
        /\ lookups[r] = <<>>

\* the parameters of the map that name cell c and that scenario_params has
SuppliedFor(c) ==
    {p \in DOMAIN INPUT_CELL_MAP :
        INPUT_CELL_MAP[p] = c /\ p \in DOMAIN wr.scenario_params}

\* the input file after step 1: a cell of the map whose parameter the scenario
\* supplies holds the value (a number as a number, anything else as its text),
\* every other cell is as in the template
InputsWritten ==
    wr.applied /\ wr.ok =>
        /\ DOMAIN wr.input_file.cells = DOMAIN TemplateCells
        /\ \A c \in DOMAIN TemplateCells :
              /\ SuppliedFor(c) = {} => wr.input_file.cells[c] = TemplateCells[c]
              /\ \A p \in SuppliedFor(c) :
                    LET value == wr.scenario_params[p]
                        cell == wr.input_file.cells[c]
                    IN  /\ value.type = "num" => cell = NumCell(value.n)
                        /\ value.type = "str" => cell.kind = "text" /\ cell.text = value.s
                        /\ value.type = "none" => cell.kind = "text" /\ cell.text = "None"

\* C15: step 1 changes, in the copy of the template, only the cells of the
\* parameter-to-cell map whose parameter the scenario supplies; a number is
\* written as a number and any other value as its text; the master template is
\* never written.
C15_OnlyMappedCellsWritten ==
    []InputsWritten /\ [][template' = template]_vars

\* a scenario that supplies a text, a number, and no value for the third cell
C15_Witness ==
    /\ wr.applied /\ wr.ok
    /\ DOMAIN wr.scenario_params = {"premium", "withdrawal_amount", "client_age"}
    /\ wr.scenario_params["premium"] = PyText("abc")
    /\ wr.scenario_params["withdrawal_amount"] = PyNum(500)
    /\ wr.input_file.cells["C7"].text = "abc"
    /\ wr.input_file.cells["F8"] = NumCell(500)
    /\ wr.input_file.cells["F7"] = TemplateCells["F7"]
    /\ wr.input_file.cells["C8"] = TemplateCells["C8"]

\* create_plan_excel, applied on its own, made a report
ReportMade == xl.applied /\ ~xl.bytes.is_none

GridColumn(key) ==
    CASE key = KeyNoWithdrawal -> "B"
      [] key = KeyPlanA -> "D"
      [] key = KeyPlanB -> "F"

ScenarioKeys == {KeyNoWithdrawal, KeyPlanA, KeyPlanB}

\* C17: for every report year and every scenario label that is not in the
\* ScenarioSet, the cell of that year in the column of that scenario is empty in
\* the report, whatever the template held there.
C17_AbsentScenarioCleared ==
    ReportMade =>
        \A i \in 1 .. Len(FIXED_REPORT_YEARS) :
            \A key \in ScenarioKeys \ xl.calculated_data.keys :
                xl.bytes.cells[<<GridColumn(key), 11 + i>>] = EmptyCell

\* a report of a ScenarioSet with the base scenario only, on a template with
\* values in the cells of the plans
C17_Witness ==
    /\ ReportMade
    /\ xl.calculated_data.keys = {KeyNoWithdrawal}
    /\ ReportTemplateCells[<<"D", 12>>].kind = "num"
    /\ ReportTemplateCells[<<"F", 25>>].kind = "num"
    /\ xl.bytes.cells[<<"D", 12>>] = EmptyCell
    /\ xl.bytes.cells[<<"F", 25>>] = EmptyCell
    /\ xl.bytes.cells[<<"B", 12>>].kind = "num"

\* the cells of the results grid: rows 12 to 25 of the three columns
GridCells == {<<col, row>> : col \in {"B", "D", "F"}, row \in 12 .. 25}
HeaderCells == {<<"B", 1>>, <<"B", 5>>, <<"B", 6>>, <<"C", 10>>, <<"E", 10>>}

\* C18: the value of the year at index i (from 0) of a scenario of the
\* ScenarioSet is in row 12 + i of the column of the scenario (B, D, F), it is
\* the value the scenario's results have for that year, and no cell of the sheet
\* outside the grid and the header cells is written.
C18_GridPlacement ==
    ReportMade =>
        /\ \A i \in 1 .. Len(FIXED_REPORT_YEARS) :
              \A key \in xl.calculated_data.keys :
                  LET list == ScenarioList(xl.calculated_data, key)
                  IN  /\ list[i].year = FIXED_REPORT_YEARS[i]
                      /\ xl.bytes.cells[<<GridColumn(key), 12 + (i - 1)>>] =
                            NumCell(list[i].total_csv)
        /\ \A c \in ReportCells \ (GridCells \cup HeaderCells) :
              xl.bytes.cells[c] = ReportTemplateCells[c]

\* a report of all three scenarios whose grid holds the values of the years, a
\* different one in each row
C18_Witness ==
    /\ ReportMade
    /\ xl.calculated_data.keys = ScenarioKeys
    /\ xl.bytes.cells[<<"D", 13>>] = NumCell(xl.calculated_data.plan_a.list[2].total_csv)
    /\ xl.bytes.cells[<<"D", 13>>].v > 0
    /\ xl.bytes.cells[<<"D", 13>>] # xl.bytes.cells[<<"D", 12>>]
    /\ xl.bytes.cells[<<"D", 13>>] # xl.bytes.cells[<<"B", 13>>]
    /\ xl.bytes.cells[<<"F", 25>>].v > 0

NoPlan == [start |-> 0, amount |-> 0]

\* the report made of what the run returned
ExcelMade(r) == excel_bytes[r].rendered /\ ~excel_bytes[r].bytes.is_none

\* C19: with premium 10000 and no withdrawals, a run whose base scenario
\* succeeded returns a ScenarioSet with exactly one scenario key, and the report
\* made of it has the columns of plans A and B empty in all 14 rows.
C19_BaseOnly ==
    \A r \in Runs :
        /\ inputs[r].premium = 10000 /\ inputs[r].w_a = NoPlan /\ inputs[r].w_b = NoPlan
        /\ Done(r) /\ ~results[r]["No Withdrawal"].is_none
        => /\ ~returned[r].is_none
           /\ returned[r].keys = {KeyNoWithdrawal}
           /\ ExcelMade(r) =>
                 \A row \in 12 .. 25 :
                     /\ excel_bytes[r].bytes.cells[<<"D", row>>] = EmptyCell
                     /\ excel_bytes[r].bytes.cells[<<"F", row>>] = EmptyCell

C19_Witness ==
    \E r \in Runs :
        /\ inputs[r].premium = 10000 /\ inputs[r].w_a = NoPlan /\ inputs[r].w_b = NoPlan
        /\ Done(r) /\ ExcelMade(r)
        /\ Cardinality(returned[r].keys) = 1
        /\ excel_bytes[r].bytes.cells[<<"B", 12>>].v > 0
        /\ excel_bytes[r].bytes.cells[<<"D", 12>>] = EmptyCell

\* C20: with premium 10000, plan A from year 10 with amount 500 and no plan B, a
\* run whose calculations all succeeded returns a ScenarioSet with exactly two
\* scenario keys, and the report made of it has a number in every one of the 14
\* rows of columns B and D and column F empty.
C20_BaseAndPlanA ==
    \A r \in Runs :
        /\ inputs[r].premium = 10000 /\ inputs[r].w_a = [start |-> 10, amount |-> 500]
        /\ inputs[r].w_b = NoPlan
        /\ Done(r)
        /\ ~results[r]["No Withdrawal"].is_none /\ ~results[r]["Withdrawal A"].is_none
        => /\ ~returned[r].is_none
           /\ returned[r].keys = {KeyNoWithdrawal, KeyPlanA}
           /\ ExcelMade(r) =>
                 \A row \in 12 .. 25 :
                     /\ excel_bytes[r].bytes.cells[<<"B", row>>].kind = "num"
                     /\ excel_bytes[r].bytes.cells[<<"D", row>>].kind = "num"
                     /\ excel_bytes[r].bytes.cells[<<"F", row>>] = EmptyCell

C20_Witness ==
    \E r \in Runs :
        /\ inputs[r].w_a = [start |-> 10, amount |-> 500] /\ inputs[r].w_b = NoPlan
        /\ Done(r) /\ ExcelMade(r)
        /\ Cardinality(returned[r].keys) = 2
        /\ excel_bytes[r].bytes.cells[<<"D", 25>>].v > 0
        /\ excel_bytes[r].bytes.cells[<<"D", 25>>] # excel_bytes[r].bytes.cells[<<"B", 25>>]
        /\ excel_bytes[r].bytes.cells[<<"F", 25>>] = EmptyCell

\* the text cell of plan A (C10) or B (E10) in the report made of the run
PlanText(r, letter) ==
    excel_bytes[r].bytes.cells[IF letter = "A" THEN <<"C", 10>> ELSE <<"E", 10>>]

PlanConfig(r, letter) == IF letter = "A" THEN inputs[r].w_a ELSE inputs[r].w_b

PlanScenario(letter) == IF letter = "A" THEN "Withdrawal A" ELSE "Withdrawal B"

\* one of start year and amount is positive and the other is not
PartlySpecified(w) ==
    (w.start > 0 /\ w.amount <= 0) \/ (w.start <= 0 /\ w.amount > 0)

\* a plan with only one positive value is never calculated
PartlySpecifiedNotRun(r, letter) ==
    PartlySpecified(PlanConfig(r, letter)) =>
        \A i \in 1 .. Len(calls[r]) : calls[r][i] # PlanScenario(letter)

\* C21 as stated: the text of a plan is the start-year/amount description exactly
\* when both values are positive, and the 'not configured' message whenever start
\* year or amount is zero; a plan with one positive value is never calculated
\* and has a text written.
C21_TextAsStated ==
    \A r \in Runs : \A letter \in {"A", "B"} :
        /\ PartlySpecifiedNotRun(r, letter)
        /\ ExcelMade(r) =>
              LET w == PlanConfig(r, letter)
              IN  /\ PlanText(r, letter).kind = "text"
                  /\ PlanText(r, letter) = StrCell("from_year_each_year",
                                                    <<w.start, w.amount>>)
                        <=> (w.start > 0 /\ w.amount > 0)
                  /\ (w.start = 0 \/ w.amount = 0)
                        => PlanText(r, letter).text = "not_configured_" \o letter

\* C21, amended: the text is the start-year/amount description exactly when both
\* values are positive and the 'not configured' message exactly when neither is;
\* a plan with one positive value gets a text of its own that names that value,
\* and is never calculated.
C21_WithdrawalText ==
    \A r \in Runs : \A letter \in {"A", "B"} :
        /\ PartlySpecifiedNotRun(r, letter)
        /\ ExcelMade(r) =>
              LET w == PlanConfig(r, letter)
              IN  /\ PlanText(r, letter).kind = "text"
                  /\ PlanText(r, letter) = StrCell("from_year_each_year",
                                                    <<w.start, w.amount>>)
                        <=> (w.start > 0 /\ w.amount > 0)
                  /\ PlanText(r, letter).text = "not_configured_" \o letter
                        <=> (w.start <= 0 /\ w.amount <= 0)
                  /\ (w.start > 0 /\ w.amount <= 0)
                        => PlanText(r, letter) = StrCell("from_year_amount_not_set",
                                                         <<w.start>>)
                  /\ (w.start <= 0 /\ w.amount > 0)
                        => PlanText(r, letter) = StrCell("start_not_set_each_year",
                                                         <<w.amount>>)

\* a report of a run with plan A given a start year and no amount
C21_Witness ==
    \E r \in Runs :
        /\ Done(r) /\ ExcelMade(r)
        /\ inputs[r].w_a = [start |-> 10, amount |-> 0]
        /\ inputs[r].w_b = [start |-> 10, amount |-> 500]
        /\ calls[r] = <<"No Withdrawal", "Withdrawal B">>
        /\ PlanText(r, "A") = StrCell("from_year_amount_not_set", <<10>>)
        /\ PlanText(r, "B") = StrCell("from_year_each_year", <<10, 500>>)

\* the place of a scenario in the order no-withdrawal, withdrawal A, withdrawal B
ScenarioRank(n) ==
    CASE n = "No Withdrawal" -> 1
      [] n = "Withdrawal A" -> 2
      [] n = "Withdrawal B" -> 3

Last(q) == q[Len(q)]

\* the calls and the conversions of a run so far are in scenario order, every
\* scenario has at most an ODS and then an XLSX conversion and one extraction
InScenarioOrder(r) ==
    /\ calls[r] # <<>> => calls[r][1] = "No Withdrawal"
    /\ \A i, j \in 1 .. Len(calls[r]) :
          i < j => ScenarioRank(calls[r][i]) < ScenarioRank(calls[r][j])
    /\ \A i, j \in 1 .. Len(invocations[r]) :
          i < j => ScenarioRank(invocations[r][i].scenario)
                      <= ScenarioRank(invocations[r][j].scenario)
    /\ \A n \in ScenarioNames :
          /\ Len(ConversionsOf(r, n)) <= 2
          /\ Len(ConversionsOf(r, n)) >= 1 => ConversionsOf(r, n)[1].fmt = "ods"
          /\ Len(ConversionsOf(r, n)) = 2 => ConversionsOf(r, n)[2].fmt = "xlsx"
          /\ Len(ExtractionsOf(r, n)) <= 1
    /\ Len(invocations[r]) <= 6

\* a step that invokes the binary or extracts results does so for the scenario
\* called last, and that invocation has ended (it has its outcome) in the step;
\* a step that calls the next scenario is the step in which the scenario before
\* it returned
OneCycleAtATime(r) ==
    /\ invocations'[r] # invocations[r] =>
          /\ Len(invocations'[r]) = Len(invocations[r]) + 1
          /\ Last(invocations'[r]).scenario = Last(calls[r])
          /\ Last(invocations'[r]).scenario = scen[r]
          /\ Last(invocations'[r]).raised \in
                {"", "conversion_timeout", "conversion_launch_failure"}
    /\ extracted'[r] # extracted[r] =>
          /\ Last(extracted'[r]).scenario = Last(calls[r])
          /\ Len(ConversionsOf(r, Last(calls[r]))) = 2
    /\ (calls'[r] # calls[r] /\ calls[r] # <<>>) =>
          /\ Len(calls'[r]) = Len(calls[r]) + 1
          /\ scen[r] = Last(calls[r])
          /\ scen'[r] = Last(calls'[r])
          /\ \/ ~results'[r][scen[r]].is_none
             \/ \E i \in 1 .. Len(st_messages'[r]) :
                   st_messages'[r][i] = Msg("error", "calculation_failed", scen[r], 0)

\* C25: within one run the scenarios are processed in the order no-withdrawal,
\* withdrawal A, withdrawal B; every invocation of the binary and every
\* extraction belongs to the scenario in progress and the next scenario is called
\* only when that one has returned; a run makes at most six conversions.
C25_SequentialScenarios ==
    /\ [](\A r \in Runs : InScenarioOrder(r))
    /\ [][\A r \in Runs : OneCycleAtATime(r)]_vars

\* a run of all three scenarios with six conversions
C25_Witness ==
    \E r \in Runs :
        /\ Done(r)
        /\ calls[r] = <<"No Withdrawal", "Withdrawal A", "Withdrawal B">>
        /\ Len(invocations[r]) = 6
        /\ invocations[r][3].scenario = "Withdrawal A"
        /\ Len(extracted[r]) = 3

DecimalDigits == <<"0", "1", "2", "3", "4", "5", "6", "7", "8", "9">>

\* the decimal numeral of a natural number
RECURSIVE Numeral(_)
Numeral(n) ==
    IF n < 10 THEN DecimalDigits[n + 1]
    ELSE Numeral(n \div 10) \o DecimalDigits[(n % 10) + 1]

\* C26: the keys of the year-to-cell table are exactly the 14 report years of the
\* pipeline, year y is mapped to the cell in column G and row 64 + y, and no
\* extraction of the pipeline meets a year that is not in the table.
C26_YearToCellTable ==
    /\ Len(FIXED_REPORT_YEARS) = 14
    /\ Cardinality(DOMAIN YEAR_TO_CELL_MAP) = 14
    /\ DOMAIN YEAR_TO_CELL_MAP =
          {FIXED_REPORT_YEARS[i] : i \in 1 .. Len(FIXED_REPORT_YEARS)}
    /\ \A y \in DOMAIN YEAR_TO_CELL_MAP : YEAR_TO_CELL_MAP[y] = "G" \o Numeral(64 + y)
    /\ \A r \in Runs :
          /\ ~HasTag(r, "year_not_in_map")
          /\ \A n \in ScenarioNames :
                ~results[r][n].is_none => Len(results[r][n].list) = 14

\* a run extracted the results of a scenario, the value of year 90 from G154
C26_Witness ==
    \E r \in Runs :
        /\ Done(r)
        /\ Len(extracted[r]) >= 2
        /\ ~results[r]["Withdrawal A"].is_none
        /\ results[r]["Withdrawal A"].list[14].year = 90
        /\ results[r]["Withdrawal A"].list[14].total_csv =
              Round2(extracted[r][2].file.cells["G154"].v)
        /\ results[r]["Withdrawal A"].list[14].total_csv > 0
        /\ YEAR_TO_CELL_MAP[10] = "G74" /\ YEAR_TO_CELL_MAP[90] = "G154"

\* the run created its directory
WorkspaceCreated(r) == temp_dir[r] # NoTempDir

\* the no-withdrawal scenario of the run returned results
BaseSucceeded(r) == ~results[r]["No Withdrawal"].is_none

\* the scenarios the returned set holds are those that succeeded, with their results
KeepsSucceeded(r) ==
    /\ ~results[r]["Withdrawal A"].is_none =>
          /\ KeyPlanA \in returned[r].keys
          /\ returned[r].plan_a = results[r]["Withdrawal A"]
    /\ ~results[r]["Withdrawal B"].is_none =>
          /\ KeyPlanB \in returned[r].keys
          /\ returned[r].plan_b = results[r]["Withdrawal B"]

PdfHasMessage(level, tag) ==
    \E i \in 1 .. Len(pdf.messages) : pdf.messages[i] = Msg(level, tag, "", 0)

\* the office suite was run and wrote a PDF of the report sheet, ending with exit
\* code 0
PageRendered ==
    /\ pdf.applied
    /\ pdf.invocations # <<>>
    /\ pdf.invocations[1].raised = ""
    /\ pdf.invocations[1].rc = 0
    /\ pdf.invocations[1].output = "page"

\* C22: when the page was rendered, create_plan_pdf returns a document that starts
\* with the generated page; the static file follows it when it is there and can
\* be merged; when it is not there the document is the generated page alone and a
\* warning is shown.
C22_GeneratedPageFirst ==
    PageRendered =>
        /\ ~pdf.bytes.is_none
        /\ pdf.bytes.readable
        /\ pdf.bytes.pages[1].kind = "generated"
        /\ pdf.bytes.pages[1].cells = pdf.invocations[1].source
        /\ pdf.bytes.pages[1].cells[CellRef("B", 5)] = NumCell(pdf.parameters.premium)
        /\ pdf.static = "mergeable" =>
              /\ Len(pdf.bytes.pages) = 2
              /\ pdf.bytes.pages[2] = StaticPage
        /\ pdf.static = "absent" =>
              /\ Len(pdf.bytes.pages) = 1
              /\ PdfHasMessage("warning", "static_pdf_not_found")
              /\ \A i \in 1 .. Len(pdf.messages) : pdf.messages[i].level # "error"

\* the page was rendered, there is no static file, and the temporary directory
\* could not be removed: the document is the generated page
C22_Witness ==
    /\ PageRendered
    /\ pdf.static = "absent"
    /\ ~pdf.env.rmtree_ok
    /\ ~pdf.bytes.is_none
    /\ Len(pdf.bytes.pages) = 1
    /\ PdfHasMessage("warning", "static_pdf_not_found")

\* the conversion was attempted and did not give a page: it raised, ended with
\* another exit code than 0, or left no output file
ConversionFailed ==
    /\ pdf.invocations # <<>>
    /\ \/ pdf.invocations[1].raised # ""
       \/ pdf.invocations[1].rc # 0
       \/ pdf.invocations[1].output = "none"

\* no result without the workbook, without the binary, or after a failed conversion
NoPdfOnFailure ==
    (\/ ~pdf.excel_made
     \/ pdf.lookups = 1 /\ ~pdf.env.found
     \/ ConversionFailed) => pdf.bytes.is_none

\* at most one run of the binary, after the workbook was made and the binary found
InvokedOnceWhenReady ==
    /\ Len(pdf.invocations) <= 1
    /\ pdf.invocations # <<>> => pdf.excel_made /\ pdf.lookups = 1 /\ pdf.env.found
    /\ ~pdf.excel_made => pdf.lookups = 0

\* C30 as stated: no result on each failure, at most one run of the binary and only
\* when the workbook and the binary are there, and the temporary directory is gone
\* when create_plan_pdf returns, whatever happened.
C30_TempDirAlwaysRemoved ==
    pdf.applied =>
        /\ NoPdfOnFailure
        /\ InvokedOnceWhenReady
        /\ ~pdf.output_dir.exists

\* C30, amended: no result on each failure, at most one run of the binary and only
\* when the workbook and the binary are there, and the removal of the temporary
\* directory is attempted whenever it was created; the directory is left behind
\* exactly when that removal fails, which shows a warning and changes nothing else.
C30_TempDirRemovalAttempted ==
    pdf.applied =>
        /\ NoPdfOnFailure
        /\ InvokedOnceWhenReady
        /\ pdf.output_dir.created => pdf.output_dir.rmtree_called
        /\ pdf.output_dir.exists <=>
              (pdf.output_dir.created /\ ~pdf.env.rmtree_ok)
        /\ pdf.output_dir.exists => PdfHasMessage("warning", "temp_dir_not_removed")
        /\ (PageRendered /\ pdf.output_dir.exists) => ~pdf.bytes.is_none

\* the conversion timed out: no result, and the directory made for it is gone
C30_Witness ==
    /\ pdf.applied
    /\ pdf.invocations # <<>>
    /\ pdf.invocations[1].raised = "pdf_conversion_timeout"
    /\ pdf.bytes.is_none
    /\ pdf.output_dir.created
    /\ ~pdf.output_dir.exists

UiHasStatus(level, tag) ==
    \E i \in 1 .. Len(ui.status) : ui.status[i] = Msg(level, tag, "", 0)

\* the artifacts the session holds
StoredArtifacts ==
    (IF ui.pdf_bytes.is_none THEN {} ELSE {"pdf"})
    \cup (IF ui.excel_bytes.is_none THEN {} ELSE {"excel"})

\* the last script run passed through the execution block to its end, after a
\* calculation that returned a set
ReportsDone == ui.open /\ ui.last.kind = "executed" /\ ui.last.outcome = "succeeded"

\* the last script run reached the display section
DisplayReached == ui.open /\ ui.last.kind \in {"shown", "rejected"}

OneInProgress ==
    ui.open =>
        /\ ui.executions <= ui.accepted
        /\ ui.accepted <= ui.executions + 1
        /\ ui.calculation_running <=> ui.accepted = ui.executions + 1
        /\ ui.calculation_running => ui.rerun_requested
        /\ ui.button_disabled => ui.rerun_requested

\* while calculation_running is true no request is accepted, and the pass through
\* the execution block calls generate_all_scenarios once and ends with
\* calculation_running false
RunningStep ==
    (ui.open /\ ui.calculation_running) =>
        /\ ui'.accepted = ui.accepted
        /\ ui'.executions \in {ui.executions, ui.executions + 1}
        /\ ui'.executions = ui.executions + 1 <=> ~ui'.calculation_running

\* C24: at most one calculation is in progress in a session: a click that arrives
\* while calculation_running is true starts nothing, every accepted click is
\* followed by exactly one call of generate_all_scenarios, after which
\* calculation_running is false however the call ended, and a button shown
\* disabled is shown enabled again.
C24_OneCalculationAtATime ==
    /\ []OneInProgress
    /\ [][RunningStep]_vars
    /\ ((ui.open /\ ui.calculation_running) ~> (ui.open /\ ~ui.calculation_running))
    /\ ((ui.open /\ ui.button_disabled) ~> (ui.open /\ ~ui.button_disabled))

\* the click arrived while calculation_running was true; the one calculation of
\* the session raised, and calculation_running is false again
C24_Witness ==
    /\ ui.open
    /\ ui.last.kind = "executed" /\ ui.last.clicked /\ ui.last.outcome = "raised"
    /\ ~ui.calculation_running
    /\ ui.accepted = 1 /\ ui.executions = 1

AllEmpty(s) == s.calculated_data.is_none /\ s.pdf_bytes.is_none /\ s.excel_bytes.is_none

\* the stored artifacts belong to the stored calculation data
SameCalculation ==
    ui.open =>
        /\ ~ui.pdf_bytes.is_none =>
              ~ui.calculated_data.is_none /\ ui.pdf_bytes.of = ui.calculated_data.of
        /\ ~ui.excel_bytes.is_none =>
              ~ui.calculated_data.is_none /\ ui.excel_bytes.of = ui.calculated_data.of
        /\ ~ui.calculated_data.is_none => ui.calculated_data.of = ui.executions
        /\ (ui.last.kind = "executed" /\ ui.last.outcome \in {"failed", "raised"}) =>
              AllEmpty(ui)
        /\ ui.last.kind = "accepted" => AllEmpty(ui)

\* C28: when a script run ends, a stored PDF or Excel report comes with stored
\* calculation data of the same calculation: accepting a request empties all
\* three, and a calculation that fails or raises leaves all three empty.
C28_ArtifactsOfStoredData ==
    /\ []SameCalculation
    /\ [][(ui.open /\ ui'.accepted # ui.accepted) => AllEmpty(ui')]_vars

\* the second calculation of the session: its data and its PDF report are stored,
\* its Excel report failed, and nothing of the first is left
C28_Witness ==
    /\ ui.open
    /\ ui.executions = 2
    /\ ~ui.calculated_data.is_none /\ ui.calculated_data.of = 2
    /\ ~ui.pdf_bytes.is_none /\ ui.pdf_bytes.of = 2
    /\ ui.excel_bytes.is_none

\* a withdrawal plan with a start year and without an amount
StartWithoutAmount(w) == w.start > 0 /\ w.amount <= 0

\* a withdrawal plan with an amount and without a start year
AmountWithoutStart(w) == w.start = 0 /\ w.amount > 0

\* the step is a script run in which the trigger block saw the click
ClickSeen == ui.open /\ ~ui.calculation_running /\ ui'.last.clicked /\ ui' # ui

\* a click with a start year and no amount for plan A or plan B changes nothing
RejectedStep ==
    (ClickSeen /\ (\/ StartWithoutAmount(ui'.widgets.w_a)
                   \/ StartWithoutAmount(ui'.widgets.w_b))) =>
        /\ ui'.last.kind = "rejected"
        /\ ~ui'.calculation_running /\ ~ui'.rerun_requested
        /\ ui'.accepted = ui.accepted /\ ui'.executions = ui.executions
        /\ ui'.calculated_data = ui.calculated_data
        /\ ui'.pdf_bytes = ui.pdf_bytes
        /\ ui'.excel_bytes = ui.excel_bytes

\* a click with an amount and no start year for plan A or plan B is accepted
\* (the other plan having no start year without an amount)
PassedStep ==
    (/\ ClickSeen
     /\ AmountWithoutStart(ui'.widgets.w_a) \/ AmountWithoutStart(ui'.widgets.w_b)
     /\ ~StartWithoutAmount(ui'.widgets.w_a)
     /\ ~StartWithoutAmount(ui'.widgets.w_b)) =>
        /\ ui'.last.kind = "accepted"
        /\ ui'.calculation_running

PlanAOf(params) ==
    [start |-> params.withdrawal_a_start, amount |-> params.withdrawal_a_amount]
PlanBOf(params) ==
    [start |-> params.withdrawal_b_start, amount |-> params.withdrawal_b_amount]

\* the stored set has no plan whose inputs were an amount without a start year,
\* and the status shows no error or warning of the calculation
LeftOutSilently ==
    ReportsDone =>
        /\ AmountWithoutStart(PlanAOf(ui.calculated_data.parameters)) =>
              KeyPlanA \notin ui.calculated_data.keys
        /\ AmountWithoutStart(PlanBOf(ui.calculated_data.parameters)) =>
              KeyPlanB \notin ui.calculated_data.keys
        /\ \A i \in 1 .. Len(ui.status) :
              ui.status[i].tag \in {"calculating", "do_not_click", "calculation_done",
                                    "pdf_generated", "pdf_failed", "excel_generated",
                                    "excel_failed", "reports_done", "both_reports_failed"}

\* C29: a click with a start year and no amount for plan A or plan B is rejected:
\* calculation_running stays false, nothing is calculated and what is stored
\* stays as it is; a plan with an amount and no start year passes the validation,
\* and the calculation runs without that plan and without a message about it.
C29_Validation ==
    /\ [][RejectedStep /\ PassedStep]_vars
    /\ []LeftOutSilently

\* a click was rejected while the results of an earlier calculation are stored
\* and offered
C29_Witness ==
    /\ ui.open
    /\ ui.last.kind = "rejected"
    /\ StartWithoutAmount(ui.widgets.w_b)
    /\ ~ui.calculated_data.is_none
    /\ ui.calculated_data.parameters.withdrawal_a_start = 0
    /\ ui.calculated_data.parameters.withdrawal_a_amount > 0
    /\ ui.downloads = {"pdf", "excel"}
    /\ ui.executions = 1
====
